---- MODULE Spec2Model ----
(***************************************************************************)
(* Verification model of the Cycloid MCP server.                           *)
(*                                                                         *)
(* The repository holds two generations of the same code:                  *)
(*   "tools"  : src/components/stacks/stacks_tools.py + stacks_handler.py  *)
(*              running on src/cli_mixin.py (and server.py's HTTPCLIMixin) *)
(*   "module" : src/components/stacks.py running on src/cli.py             *)
(* Both are modelled; the variable `variant` says which one a run uses.    *)
(*                                                                         *)
(* Text is modelled as a sequence of string tokens, so that formatting a   *)
(* message is concatenation (\o) and "contains" is a real check.           *)
(***************************************************************************)
EXTENDS Integers, Sequences, FiniteSets, TLC

(***************************************************************************)
(* Bounds                                                                  *)
(***************************************************************************)
\* longest stack name (in characters) a client answers or a caller passes
MaxNameLen == 2
\* longest stack name a caller passes as the `name` parameter of the call
MaxParamNameLen == 1

(***************************************************************************)
(* Text helpers                                                            *)
(***************************************************************************)
\* characters a stack name is made of
NameChars == {"B", " ", "-"}

RECURSIVE SeqsUpTo(_, _)
SeqsUpTo(S, n) ==
    IF n = 0 THEN {<<>>}
    ELSE LET shorter == SeqsUpTo(S, n - 1)
         IN  shorter \cup {Append(s, c) : s \in {t \in shorter : Len(t) = n - 1}, c \in S}

Names == SeqsUpTo(NameChars, MaxNameLen)

\* str.strip(): drop leading and trailing whitespace
RECURSIVE LStrip(_)
LStrip(s) == IF s # <<>> /\ Head(s) = " " THEN LStrip(Tail(s)) ELSE s

RECURSIVE RStrip(_)
RStrip(s) == IF s # <<>> /\ s[Len(s)] = " " THEN RStrip(SubSeq(s, 1, Len(s) - 1)) ELSE s

Strip(s) == RStrip(LStrip(s))

\* ", ".join(items)
RECURSIVE Join(_)
Join(items) ==
    IF items = <<>> THEN <<>>
    ELSE IF Len(items) = 1 THEN <<items[1]>>
    ELSE <<items[1], ", ">> \o Join(Tail(items))

\* mutant: every value passes for a member
InListAnything(x, list) == TRUE

\* x in list
InList(x, list) == \E i \in 1..Len(list) : list[i] = x

\* substring test on token text
Contains(msg, tok) == \E i \in 1..Len(msg) : msg[i] = tok

\* str.lower() on the confirmation answers of the model
Lower(tok) == IF tok = "CONFIRM" THEN "confirm" ELSE tok

(***************************************************************************)
(* Subprocess runner and result mapper                                     *)
(***************************************************************************)
\* str(timeout) for the default `timeout=30` of execute_cli_command
TimeoutText == "30"

\* what the child process can do once execute_cli_command tries to run it:
\*   exit    : it ran and exited with `code`, having written stdout/stderr
\*   timeout : communicate() did not finish before the timeout
\*   oserror : create_subprocess_exec raised (no process was created)
ProcOutcomes ==
    {[kind |-> "exit", code |-> 0, stdout |-> <<"stack-created">>, stderr |-> <<>>]}
    \cup {[kind |-> "exit", code |-> c, stdout |-> <<>>, stderr |-> e] :
            c \in {1, 2}, e \in {<<>>, <<"auth failed">>}}
    \cup {[kind |-> "timeout", code |-> 0, stdout |-> <<>>, stderr |-> <<>>],
          [kind |-> "oserror", code |-> 0, stdout |-> <<>>, stderr |-> <<"No such file">>]}

\* a child process exists (create_subprocess_exec returned)
Spawned(proc) == proc.kind \in {"exit", "timeout"}

CLIResult(proc) ==
    [kind |-> "result", success |-> (proc.code = 0), exit_code |-> proc.code,
     stdout |-> proc.stdout, stderr |-> proc.stderr, msg |-> <<>>]

CycloidCLIError(message, exit_code, stderr) ==
    [kind |-> "error", success |-> FALSE, exit_code |-> exit_code,
     stdout |-> <<>>, stderr |-> stderr, msg |-> message]

TimeoutError ==
    CycloidCLIError(<<"CLI command timed out after ", TimeoutText, " seconds">>,
                    -1, <<"Command timed out">>)

\* `except Exception as e` of execute_cli_command: wrap str(e)
ExecutionError(text) ==
    CycloidCLIError(<<"CLI command execution error: ">> \o text, -1, text)

\* the error built when the exit code is not 0
FailedError(proc) ==
    CycloidCLIError(<<"CLI command failed: ">> \o proc.stderr, proc.code, proc.stderr)

\* src/cli_mixin.py: the CycloidCLIError raised inside the try block for a
\* non-zero exit is caught by the trailing `except Exception` and wrapped
ExecuteCliCommandMixin(proc) ==
    CASE proc.kind = "timeout" -> TimeoutError
      [] proc.kind = "oserror" -> ExecutionError(proc.stderr)
      [] proc.kind = "exit" /\ proc.code # 0 -> ExecutionError(FailedError(proc).msg)
      [] OTHER -> CLIResult(proc)

\* src/cli.py: `except CycloidCLIError: raise` lets the error through unchanged
ExecuteCliCommandCli(proc) ==
    CASE proc.kind = "timeout" -> TimeoutError
      [] proc.kind = "oserror" -> ExecutionError(proc.stderr)
      [] proc.kind = "exit" /\ proc.code # 0 -> FailedError(proc)
      [] OTHER -> CLIResult(proc)

ExecuteCliCommand(v, proc) ==
    IF v = "tools" THEN ExecuteCliCommandMixin(proc) ELSE ExecuteCliCommandCli(proc)

(***************************************************************************)
(* Elicitation steps of the stack-creation flow                            *)
(***************************************************************************)
\* use cases of the validated blueprint (blueprint.get("use_cases"))
AvailableUseCases == <<"web", "api">>

\* what a client can answer to the use-case / catalog / confirmation prompts
UseCaseAnswers == {"web", "api", "bogus", ""}
CanonicalAnswers == {"repo-a", "repo-b", "bogus", ""}
ConfirmAnswers == {"confirm", "CONFIRM", "no", ""}

\* what `catalog-repository list` can give: canonicals, none, or a CLI error
CatalogListings ==
    {[ok |-> TRUE, canonicals |-> <<"repo-a", "repo-b">>, err |-> <<>>],
     [ok |-> TRUE, canonicals |-> <<>>, err |-> <<>>],
     [ok |-> FALSE, canonicals |-> <<>>, err |-> <<"CLI command failed: ", "auth failed">>]}

\* One ctx.elicit round trip.  kind = "raise": the call raised (`exc` is the
\* exception type).  Otherwise the client answered with `action`; an accepted
\* answer carries `data`, a declined or cancelled one may have no data
\* attribute at all (hasData = FALSE).
ElicitResponses(answers, none) ==
    {[kind |-> "raise", exc |-> e, action |-> "none", hasData |-> FALSE, data |-> none] :
        e \in {"AttributeError", "Exception"}}
    \cup {[kind |-> "response", exc |-> "none", action |-> "accept", hasData |-> TRUE, data |-> d] :
            d \in answers}
    \cup {[kind |-> "response", exc |-> "none", action |-> a, hasData |-> h, data |-> none] :
            a \in {"decline", "cancel"}, h \in BOOLEAN}

\* result of one step: st = "ok" (val is the value), "fail" (msg is the
\* reason returned as (False, msg)) or "raise" (an exception left the helper)
StepOk(v) == [st |-> "ok", val |-> v, msg |-> <<>>]
StepFail(m) == [st |-> "fail", val |-> <<>>, msg |-> m]
StepRaise == [st |-> "raise", val |-> <<>>, msg |-> <<>>]

\* the "❌ " the older generation puts in front of its messages
Cross(v) == IF v = "tools" THEN <<"X ">> ELSE <<>>

ElicitStackName(v, resp) ==
    IF resp.kind = "raise"
    THEN IF resp.exc = "AttributeError"
         THEN StepFail(<<"ELICITATION_NOT_SUPPORTED">>)
         ELSE StepFail(<<"ELICITATION_FAILED">>)
    ELSE IF resp.action # "accept"
    THEN StepFail(<<"Stack creation cancelled - no stack name provided.">>)
    ELSE IF ~resp.hasData \/ resp.data = <<>> \/ Strip(resp.data) = <<>>
    THEN StepFail(Cross(v) \o <<"Stack name cannot be empty. Please provide a valid name.">>)
    ELSE StepOk(Strip(resp.data))

InvalidUseCaseMsg(v, use_case, available) ==
    Cross(v) \o <<"Invalid use case '", use_case, "'. Available options are: ">>
             \o Join(available)

\* mutant: the answer is taken without checking it against the offered list
ElicitUseCaseUnchecked(v, resp, available) ==
    IF resp.kind = "raise" THEN StepRaise
    ELSE IF v = "tools" /\ ~resp.hasData THEN StepRaise
    ELSE IF resp.action # "accept"
    THEN StepFail(<<"Stack creation cancelled - no use case provided.">>)
    ELSE StepOk(resp.data)

\* stacks_tools.py reads use_case_result.data for its log line before it
\* looks at the action; stacks.py reads it with getattr(..., default)
ElicitUseCase(v, resp, available) ==
    IF resp.kind = "raise" THEN StepRaise
    ELSE IF v = "tools" /\ ~resp.hasData THEN StepRaise
    ELSE IF resp.action # "accept"
    THEN StepFail(<<"Stack creation cancelled - no use case provided.">>)
    ELSE LET use_case == IF resp.hasData THEN resp.data ELSE "<elicitation result>"
         IN  IF ~InList(use_case, available)
             THEN StepFail(InvalidUseCaseMsg(v, use_case, available))
             ELSE StepOk(use_case)

\* the catalog listing is fetched first; the prompt is sent only when the
\* listing succeeded and is not empty
CatalogPrompted(listing) == listing.ok /\ listing.canonicals # <<>>

ElicitServiceCatalogSource(v, listing, resp) ==
    IF ~listing.ok
    THEN StepFail(Cross(v) \o <<"Failed to fetch catalog repositories: ">> \o listing.err)
    ELSE IF listing.canonicals = <<>>
    THEN StepFail(Cross(v) \o <<"No catalog repositories found. Please check your configuration.">>)
    ELSE IF resp.kind = "raise" THEN StepRaise
    ELSE IF v = "tools" /\ ~resp.hasData THEN StepRaise
    ELSE IF resp.action # "accept"
    THEN StepFail(<<"Stack creation cancelled - no service catalog source provided.">>)
    ELSE LET canonical == IF resp.hasData THEN resp.data ELSE "<elicitation result>"
         IN  IF ~InList(canonical, listing.canonicals)
             THEN StepFail(Cross(v) \o <<"Invalid service catalog source '", canonical,
                                        "'. Available options are: ">>
                                    \o Join(listing.canonicals))
             ELSE StepOk(canonical)

ConfirmStackCreation(v, resp) ==
    IF resp.kind = "raise" THEN StepRaise
    ELSE IF v = "tools" /\ ~resp.hasData THEN StepRaise
    ELSE IF resp.action # "accept"
    THEN StepFail(<<"Stack creation cancelled by user.">>)
    ELSE LET data == IF resp.hasData THEN resp.data ELSE ""
         IN  IF Lower(data) # "confirm"
             THEN StepFail(<<"Stack creation cancelled - user did not type 'confirm'.">>)
             ELSE StepOk("")

(***************************************************************************)
(* Building the creation subcommand                                        *)
(***************************************************************************)
\* the blueprint reference of the call
Ref == "cycloid-io:terraform-sample"

\* str.lower() then re.sub(r"[^a-zA-Z0-9-]", "-", ...) on one character
SlugChar(c) == IF c = "B" THEN "b" ELSE IF c = " " THEN "-" ELSE c

RECURSIVE MapSlug(_)
MapSlug(s) == IF s = <<>> THEN <<>> ELSE <<SlugChar(Head(s))>> \o MapSlug(Tail(s))

\* str.strip("-")
RECURSIVE LStripDash(_)
LStripDash(s) == IF s # <<>> /\ Head(s) = "-" THEN LStripDash(Tail(s)) ELSE s

RECURSIVE RStripDash(_)
RStripDash(s) ==
    IF s # <<>> /\ s[Len(s)] = "-" THEN RStripDash(SubSeq(s, 1, Len(s) - 1)) ELSE s

\* re.sub(r"-+", "-", ...)
RECURSIVE CollapseDashes(_)
CollapseDashes(s) ==
    IF Len(s) < 2 THEN s
    ELSE IF s[1] = "-" /\ s[2] = "-" THEN CollapseDashes(Tail(s))
    ELSE <<s[1]>> \o CollapseDashes(Tail(s))

GenerateCanonicalFromName(name) == CollapseDashes(RStripDash(LStripDash(MapSlug(name))))

\* every argument of the argv is a text (a sequence of tokens)
CreateArgs(name, use_case, canonical) ==
    << <<"create">>,
       <<"--blueprint-ref">>, <<Ref>>,
       <<"--name">>, name,
       <<"--stack">>, GenerateCanonicalFromName(name),
       <<"--use-case">>, <<use_case>>,
       <<"--catalog-repository">>, <<canonical>> >>

\* [arg for arg in args if arg]
RECURSIVE DropEmpty(_)
DropEmpty(args) ==
    IF args = <<>> THEN <<>>
    ELSE IF Head(args) = <<>> THEN DropEmpty(Tail(args))
    ELSE <<Head(args)>> \o DropEmpty(Tail(args))

\* the interactive flow filters empty arguments out, direct creation does not
ElicitedCreateArgs(name, use_case, canonical) == DropEmpty(CreateArgs(name, use_case, canonical))

(***************************************************************************)
(* Results of the stack-creation tool                                      *)
(***************************************************************************)
Returned(tag, msg) == [kind |-> "returned", tag |-> tag, msg |-> msg]
Raised(tag, msg) == [kind |-> "raised", tag |-> tag, msg |-> msg]
NoOutcome == [kind |-> "none", tag |-> "none", msg |-> <<>>]

SuccessMsg(v, name, res) ==
    Cross(v) \o <<"Stack '">> \o name \o <<"' created successfully!\n">> \o res.stdout

FailedMsg(v, res) == Cross(v) \o <<"Failed to create stack: ">> \o res.stderr

UnsupportedMsg ==
    <<"This tool requires interactive elicitation support, which is not ",
      "available in this client. Please use a client that supports elicitation.">>

GuidanceMsg ==
    <<"Stack Creation Guidance", "To create a stack from blueprint '", Ref,
      "', you need to provide the following parameters:">> \o Join(AvailableUseCases)

\* StackHandler.create_stack_directly: the result, and whether it ran the
\* creation subcommand (`attempted`)
CreateStackDirectly(p, available, listing, proc) ==
    IF ~InList(p.use_case, available)
    THEN [attempted |-> FALSE,
          out |-> Returned("invalid",
                    <<"X ", "Invalid use case '", p.use_case,
                      "'. Available use cases for this blueprint are: ">> \o Join(available))]
    ELSE IF ~listing.ok
    THEN [attempted |-> FALSE,
          out |-> Returned("error", <<"X ", "Failed to fetch catalog repositories: ">> \o listing.err)]
    ELSE IF listing.canonicals = <<>>
    THEN [attempted |-> FALSE,
          out |-> Returned("error",
                    <<"X ", "No catalog repositories found. ", "Please check your configuration.">>)]
    ELSE IF ~InList(p.canonical, listing.canonicals)
    THEN [attempted |-> FALSE,
          out |-> Returned("invalid",
                    <<"X ", "Invalid service catalog source '", p.canonical,
                      "'. Available options are: ">> \o Join(listing.canonicals))]
    ELSE LET res == ExecuteCliCommand("tools", proc)
         IN  [attempted |-> TRUE,
              out |-> IF res.kind = "result"
                      THEN IF res.exit_code = 0
                           THEN Returned("created", SuccessMsg("tools", p.name, res))
                           ELSE Returned("failed", FailedMsg("tools", res))
                      ELSE Returned("error",
                             <<"X ", "An unexpected error occurred during stack creation: ">>
                             \o res.msg)]

\* StackTools._handle_no_elicitation
HandleNoElicitation(listing) ==
    IF ~listing.ok
    THEN Returned("error", <<"X ", "Failed to fetch catalog repositories: ">> \o listing.err)
    ELSE Returned("guidance", GuidanceMsg)

\* mutant: only the name is looked at
AllParamsGivenNameOnly(p) == p.name # <<>>

\* `if name and use_case and service_catalog_source_canonical`
AllParamsGiven(p) == p.name # <<>> /\ p.use_case # "" /\ p.canonical # ""

(***************************************************************************)
(* The stack-creation tool as a state machine                              *)
(***************************************************************************)
VARIABLES
    variant,    \* "tools" or "module": which generation of the code runs
    pc,         \* where the tool call is suspended
    ctxGiven,   \* the call came with an elicitation context
    params,     \* name / use_case / canonical passed in the call
    prompts,    \* the ctx.elicit calls made so far, in order
    answers,    \* what the client answered to each: step, class of answer, value
    elicited,   \* values obtained through elicitation so far
    spawns,     \* creation subcommands run so far: argv, who ran them, what they did
                \* (and for a direct creation the canonicals the listing gave)
    outcome,    \* how the tool call ended
    \* one execute_cli_command invocation
    cliPc,      \* "idle", "waiting" (awaiting communicate()) or "done"
    cliCall,    \* organization / api_key arguments and the request's headers
    cliEnv,     \* CY_ORG / CY_API_KEY given to the child process, if one exists
    cliProc,    \* what the child process did
    cliResult,  \* what execute_cli_command returned or raised
    \* the HTTP server
    httpCurrent,  \* _current_org / _current_api_key of the shared HTTPCLIMixin
    reqs,         \* per request: position, headers, result
    httpSpawns    \* child processes run for requests, with their environment

\* one call of the form-validation tool
VARIABLES
    formsPc,      \* "idle", "written" (temporary file written) or "done"
    formsContent, \* the forms_content of the call
    formsFile,    \* the temporary file exists on disk
    formsProc,    \* what the validation subprocess did
    formsOutcome  \* how the tool call ended

flowVars == <<pc, ctxGiven, params, prompts, answers, elicited, spawns, outcome>>
cliVars == <<cliPc, cliCall, cliEnv, cliProc, cliResult>>
httpVars == <<httpCurrent, reqs, httpSpawns>>
\* one call of _build_environment
VARIABLES
    envCall,   \* which class built the environment, from what
    childEnv   \* the environment handed to create_subprocess_exec

\* one header map read twice, under two spellings of the header names
VARIABLES
    extractCall,  \* the extraction function and the two header maps
    extractRes    \* what it gave for each

\* one command run through the result mapper
VARIABLES
    outCall,  \* class, entry point, auto_parse, output format, the process
    outRes    \* what the entry point returned or raised

\* one call of _build_command
VARIABLES
    buildCall,  \* class, subcommand, args, flags and output format
    cmdParts    \* the command line it built

\* one call of a function decorated with handle_errors
VARIABLES
    retryCall,   \* the decorator's return_on_error, enable_retry, max_retries
    retryPc,     \* "idle", "calling" (the function runs), "sleeping" or "done"
    attempt,     \* the loop variable of the retry loop (0 without retry)
    call_count,  \* how many times the decorated function was invoked
    funcLog,     \* what each invocation of the function did, in order
    retryRes     \* what the wrapper gave its caller

\* correlation contexts entered and left by interleaved tasks
VARIABLES
    correlation_ids,  \* _correlation_ids.get("current"), None when absent
    ctxStacks,        \* per task, its CorrelationContext objects inside `with`
    activeOrder,      \* the contexts entered and not yet left, oldest first
    uuids             \* how many uuid4 identifiers were generated

\* one ErrorMonitor and the calls made on it
VARIABLES
    monitor,   \* window_size, error_events and error_counts of the object
    recorded,  \* how many record_error calls were made on it
    stats,     \* what the last get_error_stats call returned
    statsAt    \* the value of `recorded` when it was called

\* one call of the pipeline list tool
VARIABLES
    pipePc,     \* "idle", "fetching" (execute_cli awaited) or "done"
    pipeFormat, \* the format argument of the tool
    pipeCli,    \* what execute_cli("pipeline", ["list"]) did
    pipelines,  \* what get_pipelines returned
    pipeRes     \* what the tool returned or raised

\* one call of the event list tool
VARIABLES
    evPc,      \* "idle", "fetching" (execute_cli awaited) or "done"
    evFormat,  \* the format argument of the tool
    evCli,     \* what execute_cli("event", ["list"]) did
    evRes      \* what the tool returned or raised

formsVars == <<formsPc, formsContent, formsFile, formsProc, formsOutcome>>
envVars == <<envCall, childEnv>>
\* the state of the components modelled further down
extractVars == <<extractCall, extractRes>>
outVars == <<outCall, outRes>>
buildVars == <<buildCall, cmdParts>>
retryVars == <<retryCall, retryPc, attempt, call_count, funcLog, retryRes>>
corrVars == <<correlation_ids, ctxStacks, activeOrder, uuids>>
monVars == <<monitor, recorded, stats, statsAt>>
pipeVars == <<pipePc, pipeFormat, pipeCli, pipelines, pipeRes>>
evVars == <<evPc, evFormat, evCli, evRes>>
libVars == <<formsVars, envVars, extractVars, outVars, buildVars, retryVars, corrVars, monVars, pipeVars, evVars>>
coreVars == <<variant, flowVars, cliVars, httpVars>>
vars == <<coreVars, libVars>>
\* what an action of one component leaves alone
exceptForms == <<coreVars, envVars, extractVars, outVars, buildVars, retryVars, corrVars, monVars, pipeVars, evVars>>
exceptEnv == <<coreVars, formsVars, extractVars, outVars, buildVars, retryVars, corrVars, monVars, pipeVars, evVars>>
exceptExtract == <<coreVars, formsVars, envVars, outVars, buildVars, retryVars, corrVars, monVars, pipeVars, evVars>>
exceptOut == <<coreVars, formsVars, envVars, extractVars, buildVars, retryVars, corrVars, monVars, pipeVars, evVars>>
exceptBuild == <<coreVars, formsVars, envVars, extractVars, outVars, retryVars, corrVars, monVars, pipeVars, evVars>>
exceptRetry == <<coreVars, formsVars, envVars, extractVars, outVars, buildVars, corrVars, monVars, pipeVars, evVars>>
exceptCorr == <<coreVars, formsVars, envVars, extractVars, outVars, buildVars, retryVars, monVars, pipeVars, evVars>>
exceptMon == <<coreVars, formsVars, envVars, extractVars, outVars, buildVars, retryVars, corrVars, pipeVars, evVars>>
exceptPipe == <<coreVars, formsVars, envVars, extractVars, outVars, buildVars, retryVars, corrVars, monVars, evVars>>
exceptEv == <<coreVars, formsVars, envVars, extractVars, outVars, buildVars, retryVars, corrVars, monVars, pipeVars>>

NoParams == [name |-> <<>>, use_case |-> "", canonical |-> ""]

\* what a caller can pass next to `ref`
ParamSets == [name : SeqsUpTo(NameChars, MaxParamNameLen), use_case : {"", "web", "bogus"}, canonical : {"", "repo-a", "bogus"}]

\* how the client's answer to a step reads, independent of the code:
\* raised / rejected / empty / invalid / ok
Classify(step, resp, offered) ==
    IF resp.kind = "raise" THEN "raised"
    ELSE IF resp.action # "accept" THEN "rejected"
    ELSE IF step = "name"
         THEN IF Strip(resp.data) = <<>> THEN "empty" ELSE "ok"
    ELSE IF resp.data = "" THEN "empty"
    ELSE IF step = "confirm"
         THEN IF resp.data \in {"confirm", "CONFIRM"} THEN "ok" ELSE "invalid"
    ELSE IF InList(resp.data, offered) THEN "ok" ELSE "invalid"

IsMarker(msg) == msg \in {<<"ELICITATION_FAILED">>, <<"ELICITATION_NOT_SUPPORTED">>}

\* mutant: a step that did not succeed restarts the dialogue
AfterFailedStepRetry(v, sr) == [pc |-> "name", out |-> NoOutcome]

\* mutant: a step that did not succeed raises to the caller
AfterFailedStepRaises(v, sr) == [pc |-> "done", out |-> Raised("Exception", sr.msg)]

\* What follows a step that did not succeed.
\*  tools : _handle_elicitation_flow turns a marker or an exception into
\*          "ELICITATION_FAILED", on which the tool falls back to the
\*          parameters of the call; any other reason is returned.
\*  module: a marker or an exception returns the "requires elicitation"
\*          message; any other reason is returned.
AfterFailedStep(v, sr) ==
    IF sr.st = "raise" \/ IsMarker(sr.msg)
    THEN IF v = "tools"
         THEN [pc |-> "fallback", out |-> NoOutcome]
         ELSE [pc |-> "done", out |-> Returned("unsupported", UnsupportedMsg)]
    ELSE [pc |-> "done", out |-> Returned("cancelled", sr.msg)]

FlowIdle ==
    /\ pc = "idle"
    /\ ctxGiven = FALSE
    /\ params = NoParams
    /\ prompts = <<>>
    /\ answers = <<>>
    /\ elicited = NoParams
    /\ spawns = <<>>
    /\ outcome = NoOutcome

\* create_stack_from_blueprint_smart / create_stack_from_blueprint up to the
\* first elicitation: blueprint validation and the choice of mode
CallTool(ctx, p, bp) ==
    /\ pc = "idle"
    /\ variant = "module" => (ctx /\ p = NoParams)
    /\ ctxGiven' = ctx
    /\ params' = p
    /\ IF bp = "clierror"
       THEN /\ pc' = "done"
            /\ outcome' = Raised("CycloidCLIError", <<"CLI command failed: ", "auth failed">>)
       ELSE IF bp = "notfound"
       THEN /\ pc' = "done"
            /\ outcome' = IF variant = "tools"
                          THEN Returned("error", <<"X ", "Blueprint '", Ref, "' not found. Please check the blueprint reference.">>)
                          ELSE Raised("ToolError", <<"Blueprint '", Ref, "' not found. Please check the blueprint reference.">>)
       ELSE IF bp = "nousecases"
       THEN /\ pc' = "done"
            /\ outcome' = IF variant = "tools"
                          THEN Returned("error", <<"X ", "No use cases found for blueprint '", Ref, "'. ">>)
                          ELSE Raised("ToolError", <<"No use cases found for blueprint '", Ref, "'. ">>)
       ELSE /\ pc' = IF ctx THEN "name" ELSE "fallback"
            /\ outcome' = NoOutcome
    /\ UNCHANGED <<variant, libVars, prompts, answers, elicited, spawns, cliVars, httpVars>>

\* one failed or successful step: log it and move on
StepDone(step, prompted, status, data, sr, nextPc, newElicited) ==
    /\ prompts' = IF prompted THEN Append(prompts, step) ELSE prompts
    /\ answers' = Append(answers, [step |-> step, status |-> status, data |-> data])
    /\ IF sr.st = "ok"
       THEN /\ pc' = nextPc
            /\ elicited' = newElicited
            /\ outcome' = NoOutcome
       ELSE /\ pc' = AfterFailedStep(variant, sr).pc
            /\ outcome' = AfterFailedStep(variant, sr).out
            /\ elicited' = elicited
    /\ UNCHANGED <<variant, libVars, ctxGiven, params, spawns, cliVars, httpVars>>

ElicitNameStep(resp) ==
    /\ pc = "name"
    /\ LET sr == ElicitStackName(variant, resp)
       IN  StepDone("name", TRUE, Classify("name", resp, <<>>), "", sr, "use_case",
                    [elicited EXCEPT !.name = sr.val])

ElicitUseCaseStep(resp) ==
    /\ pc = "use_case"
    /\ LET sr == ElicitUseCase(variant, resp, AvailableUseCases)
       IN  StepDone("use_case", TRUE, Classify("use_case", resp, AvailableUseCases),
                    resp.data, sr, "catalog", [elicited EXCEPT !.use_case = sr.val])

ElicitCatalogStep(listing, resp) ==
    /\ pc = "catalog"
    /\ LET sr == ElicitServiceCatalogSource(variant, listing, resp)
       IN  StepDone("catalog", CatalogPrompted(listing),
                    IF CatalogPrompted(listing)
                    THEN Classify("catalog", resp, listing.canonicals) ELSE "nolisting",
                    IF CatalogPrompted(listing) THEN resp.data ELSE "",
                    sr, "confirm", [elicited EXCEPT !.canonical = sr.val])

ConfirmStep(resp) ==
    /\ pc = "confirm"
    /\ LET sr == ConfirmStackCreation(variant, resp)
       IN  StepDone("confirm", TRUE, Classify("confirm", resp, <<"confirm">>),
                    resp.data, sr, "executing", elicited)

\* _execute_stack_creation (tools) / the tail of create_stack_from_blueprint
\* (module): run the creation subcommand with the elicited values
ExecuteStackCreation(proc) ==
    /\ pc = "executing"
    /\ LET res == ExecuteCliCommand(variant, proc)
           argv == ElicitedCreateArgs(elicited.name, elicited.use_case, elicited.canonical)
       IN  /\ spawns' = IF Spawned(proc)
                        THEN Append(spawns, [argv |-> argv, via |-> "elicited", proc |-> proc])
                        ELSE spawns
           /\ IF res.kind = "result"
              THEN /\ pc' = "done"
                   /\ outcome' = IF res.exit_code = 0
                                 THEN Returned("created", SuccessMsg(variant, elicited.name, res))
                                 ELSE Returned("failed", FailedMsg(variant, res))
              ELSE /\ pc' = AfterFailedStep(variant, StepRaise).pc
                   /\ outcome' = AfterFailedStep(variant, StepRaise).out
    /\ UNCHANGED <<variant, libVars, ctxGiven, params, prompts, answers, elicited, cliVars, httpVars>>

\* no ctx, or elicitation reported "ELICITATION_FAILED": direct creation when
\* all three parameters came with the call, guidance otherwise
Fallback(listing, proc) ==
    /\ pc = "fallback"
    /\ pc' = "done"
    /\ IF AllParamsGiven(params)
       THEN LET r == CreateStackDirectly(params, AvailableUseCases, listing, proc)
            IN  /\ outcome' = r.out
                /\ spawns' = IF r.attempted /\ Spawned(proc)
                             THEN Append(spawns,
                                    [argv |-> CreateArgs(params.name, params.use_case, params.canonical),
                                     via |-> "direct", proc |-> proc,
                                     listed |-> listing.canonicals])
                             ELSE spawns
       ELSE /\ outcome' = HandleNoElicitation(listing)
            /\ spawns' = spawns
    /\ UNCHANGED <<variant, libVars, ctxGiven, params, prompts, answers, elicited, cliVars, httpVars>>

NameResponses == ElicitResponses(Names, <<>>)

FlowNext ==
    \/ \E ctx \in BOOLEAN, p \in ParamSets,
          bp \in {"ok", "notfound", "nousecases", "clierror"} : CallTool(ctx, p, bp)
    \/ \E resp \in NameResponses : ElicitNameStep(resp)
    \/ \E resp \in ElicitResponses(UseCaseAnswers, "") : ElicitUseCaseStep(resp)
    \/ \E listing \in CatalogListings, resp \in ElicitResponses(CanonicalAnswers, "") :
          ElicitCatalogStep(listing, resp)
    \/ \E resp \in ElicitResponses(ConfirmAnswers, "") : ConfirmStep(resp)
    \/ \E proc \in ProcOutcomes : ExecuteStackCreation(proc)
    \/ \E listing \in CatalogListings, proc \in ProcOutcomes : Fallback(listing, proc)

(***************************************************************************)
(* Credentials                                                             *)
(***************************************************************************)
\* most HTTP requests in flight at once
NumRequests == 2

Requests == 1..NumRequests

\* the credentials request r carries (every request has its own)
OrgOf(r) == <<"org-", ToString(r)>>
KeyOf(r) == <<"key-", ToString(r)>>

\* How a header reaches the server: not at all, under its canonical name,
\* or under its lower-case name; a header that is there may be empty.
\* An absent and an empty value are both falsy and are both written <<>>.
HeaderNames(canonical, lower) == {"absent", canonical, lower}

HeaderSets(r) ==
    [orgName : HeaderNames("X-CY-ORG", "x-cy-org"), org : {<<>>, OrgOf(r)},
     keyName : HeaderNames("X-CY-API-KEY", "x-cy-api-key"), key : {<<>>, KeyOf(r)}]

\* an absent header has no value to vary
WellFormed(h) ==
    /\ h.orgName = "absent" => h.org = <<>>
    /\ h.keyName = "absent" => h.key = <<>>

Extracted(org, key) ==
    IF org = <<>>
    THEN [ok |-> FALSE, org |-> <<>>, key |-> <<>>,
          err |-> <<"Missing required header: ", "X-CY-ORG">>]
    ELSE IF key = <<>>
    THEN [ok |-> FALSE, org |-> <<>>, key |-> <<>>,
          err |-> <<"Missing required header: ", "X-CY-API-KEY">>]
    ELSE [ok |-> TRUE, org |-> org, key |-> key, err |-> <<>>]

\* CLIMixin._extract_auth_headers: lookup on lower-cased header names
ExtractAuthHeaders(h) ==
    Extracted(IF h.orgName # "absent" THEN h.org ELSE <<>>,
              IF h.keyName # "absent" THEN h.key ELSE <<>>)

\* server.py extract_headers: headers.get("X-CY-ORG"), case-sensitive
ExtractHeaders(h) ==
    Extracted(IF h.orgName = "X-CY-ORG" THEN h.org ELSE <<>>,
              IF h.keyName = "X-CY-API-KEY" THEN h.key ELSE <<>>)

\* CLIMixin._build_environment: the keys it sets on top of os.environ
BuildEnvironment(org, key) == [CY_ORG |-> org, CY_API_KEY |-> key]

NoEnv == [CY_ORG |-> <<>>, CY_API_KEY |-> <<>>]

\* CLIMixin._execute_command up to the spawn: the credentials it runs with
CommandCredentials(org, key, h) ==
    IF org = <<>> \/ key = <<>>
    THEN ExtractAuthHeaders(h)
    ELSE [ok |-> TRUE, org |-> org, key |-> key, err |-> <<>>]

(***************************************************************************)
(* One execute_cli_command invocation, step by step                        *)
(***************************************************************************)
NoProc == [kind |-> "none", code |-> 0, stdout |-> <<>>, stderr |-> <<>>]
NoResult == [kind |-> "none", success |-> FALSE, exit_code |-> 0,
             stdout |-> <<>>, stderr |-> <<>>, msg |-> <<>>]
NoHeaders == [orgName |-> "absent", org |-> <<>>, keyName |-> "absent", key |-> <<>>]
NoCall == [organization |-> <<>>, api_key |-> <<>>, headers |-> NoHeaders]

ExitOutcomes == {p \in ProcOutcomes : p.kind = "exit"}
TimeoutOutcome == CHOOSE p \in ProcOutcomes : p.kind = "timeout"
OsErrorOutcome == CHOOSE p \in ProcOutcomes : p.kind = "oserror"

CliIdle ==
    /\ cliPc = "idle"
    /\ cliCall = NoCall
    /\ cliEnv = NoEnv
    /\ cliProc = NoProc
    /\ cliResult = NoResult

\* execute_cli_command -> _execute_command: resolve the credentials, build
\* the environment, create the child process
CliCall(org, key, h, spawnOk) ==
    /\ cliPc = "idle"
    /\ cliCall' = [organization |-> org, api_key |-> key, headers |-> h]
    /\ LET creds == CommandCredentials(org, key, h)
       IN  IF ~creds.ok
           THEN /\ cliPc' = "done"
                /\ cliResult' = ExecutionError(creds.err)
                /\ UNCHANGED <<cliEnv, cliProc>>
           ELSE IF ~spawnOk
           THEN /\ cliPc' = "done"
                /\ cliProc' = OsErrorOutcome
                /\ cliResult' = ExecuteCliCommand(variant, OsErrorOutcome)
                /\ UNCHANGED cliEnv
           ELSE /\ cliPc' = "waiting"
                /\ cliEnv' = BuildEnvironment(creds.org, creds.key)
                /\ UNCHANGED <<cliProc, cliResult>>
    /\ UNCHANGED <<variant, libVars, flowVars, httpVars>>

\* communicate() returns before the timeout
ProcessExits(proc) ==
    /\ cliPc = "waiting"
    /\ cliPc' = "done"
    /\ cliProc' = proc
    /\ cliResult' = ExecuteCliCommand(variant, proc)
    /\ UNCHANGED <<variant, libVars, cliCall, cliEnv, flowVars, httpVars>>

\* mutant: communicate() is awaited without a timeout
AfterTimeoutUnbounded(v) == [pc |-> "waiting", proc |-> NoProc, res |-> NoResult]

\* asyncio.wait_for(process.communicate(), timeout) when the timeout elapses
\* first: it raises TimeoutError into execute_cli_command
AfterTimeout(v) == [pc |-> "done", proc |-> TimeoutOutcome,
                    res |-> ExecuteCliCommand(v, TimeoutOutcome)]

TimeoutElapses ==
    /\ cliPc = "waiting"
    /\ cliPc' = AfterTimeout(variant).pc
    /\ cliProc' = IF AfterTimeout(variant).pc = "done" THEN AfterTimeout(variant).proc ELSE cliProc
    /\ cliResult' = AfterTimeout(variant).res
    /\ UNCHANGED <<variant, libVars, cliCall, cliEnv, flowVars, httpVars>>

CredentialArgs == {<<>>, <<"org-arg">>}

CliNext ==
    \/ \E org \in CredentialArgs, key \in {<<>>, <<"key-arg">>},
          h \in {x \in HeaderSets(1) : WellFormed(x)}, spawnOk \in BOOLEAN :
          CliCall(org, key, h, spawnOk)
    \/ \E proc \in ExitOutcomes : ProcessExits(proc)
    \/ TimeoutElapses

(***************************************************************************)
(* Concurrent HTTP requests                                                *)
(***************************************************************************)
NoRequestResult == [st |-> "none", err |-> <<>>]

HttpIdle ==
    /\ httpCurrent = NoEnv
    /\ reqs = [r \in Requests |-> [pc |-> "new", headers |-> NoHeaders, result |-> NoRequestResult]]
    /\ httpSpawns = {}

\* inject_headers_middleware (server.py): on a successful extraction it
\* stores the credentials on the shared HTTPCLIMixin; a failed extraction is
\* swallowed and the request goes on.  The newer generation has no such
\* shared instance state: the request is only dispatched.
SetRequestContext(v, current, h) ==
    IF v = "tools" /\ ExtractHeaders(h).ok
    THEN BuildEnvironment(ExtractHeaders(h).org, ExtractHeaders(h).key)
    ELSE current

Middleware(r, h) ==
    /\ reqs[r].pc = "new"
    /\ httpCurrent' = SetRequestContext(variant, httpCurrent, h)
    /\ reqs' = [reqs EXCEPT ![r] = [pc |-> "handler", headers |-> h, result |-> NoRequestResult]]
    /\ UNCHANGED <<variant, libVars, httpSpawns, flowVars, cliVars>>

\* The credentials the request's CLI call runs with.
\*  tools : HTTPCLIMixin.execute_cli_command passes self._current_org and
\*          self._current_api_key as they are when the call is made;
\*          _execute_command extracts from the request only if one is falsy.
\*  module: CLIMixin.execute_cli (src/cli.py) extracts from the request.
RequestCredentials(v, current, h) ==
    IF v = "tools"
    THEN CommandCredentials(current.CY_ORG, current.CY_API_KEY, h)
    ELSE ExtractAuthHeaders(h)

\* the tool handler of request r runs its CLI command
HandlerCall(r, proc) ==
    /\ reqs[r].pc = "handler"
    /\ LET creds == RequestCredentials(variant, httpCurrent, reqs[r].headers)
           res == ExecuteCliCommand(variant, proc)
       IN  IF ~creds.ok
           THEN /\ reqs' = [reqs EXCEPT ![r].pc = "done",
                                        ![r].result = [st |-> "error", err |-> creds.err]]
                /\ httpSpawns' = httpSpawns
           ELSE /\ reqs' = [reqs EXCEPT ![r].pc = "done",
                                        ![r].result = IF res.kind = "result"
                                                      THEN [st |-> "ok", err |-> <<>>]
                                                      ELSE [st |-> "error", err |-> res.msg]]
                /\ httpSpawns' = IF Spawned(proc)
                                 THEN httpSpawns \cup
                                        {[req |-> r, env |-> BuildEnvironment(creds.org, creds.key)]}
                                 ELSE httpSpawns
    /\ UNCHANGED <<variant, libVars, httpCurrent, flowVars, cliVars>>

HttpNext ==
    \/ \E r \in Requests : \E h \in {x \in HeaderSets(r) : WellFormed(x)} : Middleware(r, h)
    \/ \E r \in Requests, proc \in ProcOutcomes : HandlerCall(r, proc)

(***************************************************************************)
(* The form-validation tool                                                *)
(***************************************************************************)
\* longest forms_content (in tokens) a caller passes
MaxFormsLen == 2

FormsContents == SeqsUpTo({"use_cases:", " "}, MaxFormsLen)

\* what `stacks forms validate <file>` can do: as any CLI command, and on
\* success it may print nothing or only whitespace
FormsProcOutcomes ==
    ProcOutcomes
    \cup {[kind |-> "exit", code |-> 0, stdout |-> o, stderr |-> <<>>] : o \in {<<>>, <<" ">>}}

FormsSuccessMsg(res) ==
    <<"**StackForms Validation Successful**\n\n">>
    \o (IF Strip(res.stdout) # <<>>
        THEN res.stdout
        ELSE <<"The StackForms file is valid and follows Cycloid best practices.">>)

\* StackFormsHandler._format_validation_error
FormatValidationError(exit_code, stderr) ==
    <<"X **StackForms Validation Failed**\n\n", "Exit code: ", ToString(exit_code),
      "\n\n**Error output:**\n">> \o stderr \o <<"\n\n**Suggestions:**\n">>

\* The result of the tool once the validation command has run.
\*  tools : StackFormsHandler.validate_stackforms catches whatever
\*          execute_cli_command raises; a CycloidCLIError has stderr and
\*          exit_code and is formatted from them.
\*  module: validate_stackforms (stackforms.py) has no handler around
\*          execute_cli_command; what it raises leaves the tool.
ValidateStackforms(v, proc) ==
    LET res == ExecuteCliCommand(v, proc)
    IN  IF res.kind = "result"
        THEN IF res.success
             THEN Returned("valid", FormsSuccessMsg(res))
             ELSE IF v = "tools"
                  THEN Returned("invalid", FormatValidationError(res.exit_code, res.stderr))
                  ELSE Raised("ToolError",
                              <<"Validation failed with exit code ", ToString(res.exit_code), ": ">>
                              \o res.stderr)
        ELSE IF v = "tools"
             THEN Returned("invalid", FormatValidationError(res.exit_code, res.stderr))
             ELSE Raised("CycloidCLIError", res.msg)

NoFormsContent == <<>>

FormsIdle ==
    /\ formsPc = "idle"
    /\ formsContent = NoFormsContent
    /\ formsFile = FALSE
    /\ formsProc = NoProc
    /\ formsOutcome = NoOutcome

\* how creating and writing the temporary file can go: both work, the file
\* cannot be created, or it is created and the text cannot be written to it
WriteOutcomes == {"written", "not_created", "write_failed"}

\* str(e) of the exception of each failure
WriteErrorText(wrote) ==
    IF wrote = "not_created" THEN <<"No space left on device">>
    ELSE <<"'utf-8' codec can't encode character: surrogates not allowed">>

\* tempfile.NamedTemporaryFile(...) and temp_file.write(forms_content).
\*  tools : delete=False, and the only os.unlink calls are inside the inner
\*          try, which a failed write never enters: the created file stays.
\*  module: delete=True, leaving the with block removes the file.
FormsWrite(content, wrote) ==
    /\ formsPc = "idle"
    /\ formsContent' = content
    /\ IF wrote = "written"
       THEN /\ formsPc' = "written"
            /\ formsFile' = TRUE
            /\ formsOutcome' = NoOutcome
       ELSE /\ formsPc' = "done"
            /\ formsFile' = (wrote = "write_failed" /\ variant = "tools")
            /\ formsOutcome' =
                  IF variant = "tools"
                  THEN Returned("error", <<"X **Unexpected Error**\n\n",
                                          "Failed to validate StackForms file: ">>
                                         \o WriteErrorText(wrote))
                  ELSE Raised(IF wrote = "not_created" THEN "OSError"
                              ELSE "UnicodeEncodeError", WriteErrorText(wrote))
    /\ UNCHANGED <<formsProc, exceptForms>>

\* execute_cli_command("stacks", ["forms", "validate", path]), the removal
\* of the temporary file and the result of the tool
FormsValidate(proc) ==
    /\ formsPc = "written"
    /\ formsPc' = "done"
    /\ formsProc' = proc
    /\ formsFile' = FALSE
    /\ formsOutcome' = ValidateStackforms(variant, proc)
    /\ UNCHANGED <<formsContent, exceptForms>>

FormsNext ==
    \/ \E content \in FormsContents, wrote \in WriteOutcomes : FormsWrite(content, wrote)
    \/ \E proc \in FormsProcOutcomes : FormsValidate(proc)

(***************************************************************************)
(* The environment of the child process                                    *)
(***************************************************************************)
\* the three classes that run the CLI
Mixins == {"cli_mixin", "cli", "http_cli_mixin"}

\* the classes of each generation (http_cli_mixin.py came with the older one)
MixinsOf(v) == IF v = "tools" THEN {"cli_mixin", "http_cli_mixin"} ELSE {"cli"}

\* config.api_url
ApiUrl == <<"https://http-api.cycloid.io">>

\* os.environ of the server: any of these variables may be set
InheritedKeys == {"PATH", "HOME", "CY_ORG", "CY_API_KEY", "CY_API_URL"}

InheritedValue(k) ==
    CASE k = "PATH" -> <<"/usr/bin">>
      [] k = "HOME" -> <<"/root">>
      [] k = "CY_ORG" -> <<"server-org">>
      [] k = "CY_API_KEY" -> <<"server-key">>
      [] OTHER -> <<"https://stale.example">>

Environs == {[k \in D |-> InheritedValue(k)] : D \in SUBSET InheritedKeys}

\* the keys _build_environment sets
InjectedKeys == {"CY_ORG", "CY_API_KEY", "CY_API_URL"}

Injected(k, org, key) ==
    CASE k = "CY_ORG" -> org
      [] k = "CY_API_KEY" -> key
      [] OTHER -> ApiUrl

\* mutant: CY_API_URL is left as inherited
BuildChildEnvironmentNoUrl(m, environ, org, key) ==
    [k \in (IF m = "http_cli_mixin" THEN {} ELSE DOMAIN environ) \cup {"CY_ORG", "CY_API_KEY"} |->
        IF k \in {"CY_ORG", "CY_API_KEY"} THEN Injected(k, org, key) ELSE environ[k]]

\* _build_environment as a map from variable names to values.
\*  cli_mixin, cli : os.environ.copy() updated with the three keys
\*  http_cli_mixin : a dict of the three keys only
BuildChildEnvironment(m, environ, org, key) ==
    [k \in (IF m = "http_cli_mixin" THEN {} ELSE DOMAIN environ) \cup InjectedKeys |->
        IF k \in InjectedKeys THEN Injected(k, org, key) ELSE environ[k]]

NoEnvCall == [mixin |-> "none", environ |-> <<>>, org |-> <<>>, key |-> <<>>]

EnvIdle ==
    /\ envCall = NoEnvCall
    /\ childEnv = <<>>

\* _execute_command: env = self._build_environment(organization, api_key)
BuildEnv(m, environ, org, key) ==
    /\ envCall = NoEnvCall
    /\ m \in MixinsOf(variant)
    /\ envCall' = [mixin |-> m, environ |-> environ, org |-> org, key |-> key]
    /\ childEnv' = BuildChildEnvironment(m, environ, org, key)
    /\ UNCHANGED exceptEnv

EnvNext ==
    \E m \in Mixins, environ \in Environs, r \in Requests :
        BuildEnv(m, environ, OrgOf(r), KeyOf(r))

(***************************************************************************)
(* Header names and the credential extractors                              *)
(***************************************************************************)
\* spellings under which a client can send the two headers
OrgSpellings == {"X-CY-ORG", "x-cy-org", "X-Cy-Org"}
KeySpellings == {"X-CY-API-KEY", "x-cy-api-key", "X-Cy-Api-Key"}

\* the extraction functions of each generation
ExtractorsOf(v) ==
    IF v = "tools"
    THEN {"_extract_auth_headers", "_extract_headers_from_context", "extract_headers"}
    ELSE {"_extract_auth_headers"}

\* mutant: every extractor lower-cases the header names first
ExtractWithFolded(fn, h) == ExtractAuthHeaders(h)

\* the (organization, api_key) a function extracts from header map h, or
\* the error it raises.  _extract_auth_headers looks the names up
\* lower-cased; _extract_headers_from_context (cli_mixin.py) and
\* extract_headers (server.py, http_cli_mixin.py) look up the literal
\* names "X-CY-ORG" and "X-CY-API-KEY".
ExtractWith(fn, h) ==
    IF fn = "_extract_auth_headers" THEN ExtractAuthHeaders(h) ELSE ExtractHeaders(h)

\* the same header values under two spellings of the names; a header that
\* is absent is absent from both maps
SpelledPairs(r) ==
    {[a |-> [orgName |-> on[1], org |-> ov, keyName |-> kn[1], key |-> kv],
      b |-> [orgName |-> on[2], org |-> ov, keyName |-> kn[2], key |-> kv]] :
        on \in (OrgSpellings \X OrgSpellings) \cup {<<"absent", "absent">>},
        kn \in (KeySpellings \X KeySpellings) \cup {<<"absent", "absent">>},
        ov \in {<<>>, OrgOf(r)}, kv \in {<<>>, KeyOf(r)}}

NoExtractCall == [fn |-> "none", a |-> NoHeaders, b |-> NoHeaders]
NoExtracted == [ok |-> FALSE, org |-> <<>>, key |-> <<>>, err |-> <<>>]

ExtractIdle ==
    /\ extractCall = NoExtractCall
    /\ extractRes = [a |-> NoExtracted, b |-> NoExtracted]

\* the function is applied to both maps
ExtractBoth(fn, pair) ==
    /\ extractCall = NoExtractCall
    /\ fn \in ExtractorsOf(variant)
    /\ WellFormed(pair.a) /\ WellFormed(pair.b)
    /\ extractCall' = [fn |-> fn, a |-> pair.a, b |-> pair.b]
    /\ extractRes' = [a |-> ExtractWith(fn, pair.a), b |-> ExtractWith(fn, pair.b)]
    /\ UNCHANGED exceptExtract

ExtractNext ==
    \E fn \in ExtractorsOf("tools"), pair \in SpelledPairs(1) : ExtractBoth(fn, pair)

(***************************************************************************)
(* Mapping the output of a successful command                              *)
(***************************************************************************)
\* output[:100] of parse_cli_output
PreviewLen == 100

\* Standard output is modelled character by character.
JsonObject == <<"{", "\"", "a", "\"", ":", "1", "}">>
LiteralObject == <<"{", "'", "a", "'", ":", "1", "}">>
EmptyList == <<"[", "]">>
\* 150 characters that are no document: 100 times "x", then 50 times "y"
LongGarbage == [i \in 1..(PreviewLen + 50) |-> IF i <= PreviewLen THEN "x" ELSE "y"]

\* what a command that exits with code 0 can have written
Stdouts ==
    {JsonObject \o <<"\n">>, LiteralObject \o <<"\n">>, EmptyList, <<>>,
     <<"o", "o", "p", "s", "\n">>, LongGarbage, <<" ", "t", "b", "l", " ", "\n">>}

\* whitespace json.loads and ast.literal_eval skip around a document
RECURSIVE SkipWs(_)
SkipWs(s) ==
    IF s # <<>> /\ Head(s) \in {" ", "\n"} THEN SkipWs(Tail(s))
    ELSE IF s # <<>> /\ s[Len(s)] \in {" ", "\n"} THEN SkipWs(SubSeq(s, 1, Len(s) - 1))
    ELSE s

\* str(e) of a json.JSONDecodeError: position of the error, no output text
DecodeErrorText == <<"Expecting value: line 1 column 1 (char 0)">>

\* json.loads on the documents of the model
JsonLoads(out) ==
    CASE SkipWs(out) = JsonObject -> [ok |-> TRUE, value |-> "dict(a=1)"]
      [] SkipWs(out) = EmptyList -> [ok |-> TRUE, value |-> "list()"]
      [] OTHER -> [ok |-> FALSE, value |-> "none"]

\* ast.literal_eval on the documents of the model
LiteralEval(out) ==
    CASE SkipWs(out) \in {JsonObject, LiteralObject} -> [ok |-> TRUE, value |-> "dict(a=1)"]
      [] SkipWs(out) = EmptyList -> [ok |-> TRUE, value |-> "list()"]
      [] OTHER -> [ok |-> FALSE, value |-> "none"]

Min(a, b) == IF a <= b THEN a ELSE b

\* output[:100]
Preview(out) == SubSeq(out, 1, Min(Len(out), PreviewLen))

\* mutant: the whole output goes into the error message
ParseCliOutputUntruncated(out) ==
    IF JsonLoads(out).ok THEN [ok |-> TRUE, value |-> JsonLoads(out).value, err |-> <<>>]
    ELSE IF LiteralEval(out).ok
    THEN [ok |-> TRUE, value |-> LiteralEval(out).value, err |-> <<>>]
    ELSE [ok |-> FALSE, value |-> "none",
          err |-> <<"Failed to parse CLI output as JSON or Python literal: ">> \o out \o <<"...">>]

\* CLIMixin.parse_cli_output: JSON first, then a Python literal, then
\* ValueError with the first 100 characters of the output
ParseCliOutput(out) ==
    IF JsonLoads(out).ok THEN [ok |-> TRUE, value |-> JsonLoads(out).value, err |-> <<>>]
    ELSE IF LiteralEval(out).ok
    THEN [ok |-> TRUE, value |-> LiteralEval(out).value, err |-> <<>>]
    ELSE [ok |-> FALSE, value |-> "none",
          err |-> <<"Failed to parse CLI output as JSON or Python literal: ">>
                  \o Preview(out) \o <<"...">>]

\* mutant: the text is trimmed before it is returned
RawTextTrimmed(out) == [kind |-> "text", stdout |-> SkipWs(out)]

\* what an entry point hands back besides a CLIResult or an error
Parsed(value) == [kind |-> "parsed", value |-> value]
RawText(out) == [kind |-> "text", stdout |-> out]

\* http_cli_mixin.py: its CLIResult and the HTTPException it raises
HttpCLIResult(proc) ==
    [kind |-> "result", return_code |-> proc.code, stdout |-> proc.stdout, stderr |-> proc.stderr]
HTTPException(status_code, detail) ==
    [kind |-> "error", status_code |-> status_code, msg |-> detail]

\* CLIMixin.execute_cli_command (cli_mixin.py) after the process ended
MixinCommandOutput(auto_parse, fmt, proc) ==
    LET res == ExecuteCliCommandMixin(proc)
    IN  IF res.kind = "error" THEN res
        ELSE IF ~auto_parse THEN res
        ELSE IF fmt # "json" THEN RawText(res.stdout)
        ELSE IF JsonLoads(res.stdout).ok THEN Parsed(JsonLoads(res.stdout).value)
        ELSE \* parse_error is raised inside the try block and wrapped again
             ExecutionError(<<"Failed to parse JSON output: ">> \o DecodeErrorText)

\* CLIMixin.execute_cli_command (cli.py): JSON is the only format
CliCommandOutput(auto_parse, proc) ==
    LET res == ExecuteCliCommandCli(proc)
    IN  IF res.kind = "error" THEN res
        ELSE IF ~auto_parse THEN res
        ELSE IF JsonLoads(res.stdout).ok THEN Parsed(JsonLoads(res.stdout).value)
        ELSE CycloidCLIError(<<"Failed to parse JSON output: ">> \o DecodeErrorText,
                             res.exit_code, <<"JSON parse error: ">> \o DecodeErrorText)

\* CLIMixin.execute_cli: the command without auto_parse, then parse_cli_output
ExecuteCliOutput(m, fmt, proc) ==
    LET res == IF m = "cli_mixin" THEN MixinCommandOutput(FALSE, fmt, proc)
               ELSE CliCommandOutput(FALSE, proc)
    IN  IF res.kind = "error" THEN res
        ELSE IF fmt # "json" THEN RawText(res.stdout)
        ELSE IF ParseCliOutput(res.stdout).ok THEN Parsed(ParseCliOutput(res.stdout).value)
        ELSE CycloidCLIError(<<"Failed to parse CLI JSON output: ">> \o ParseCliOutput(res.stdout).err,
                             res.exit_code, res.stderr)

\* HTTPCLIMixin.execute_cli_command (http_cli_mixin.py)
HttpCommandOutput(auto_parse, fmt, proc) ==
    CASE proc.kind = "timeout" ->
            HTTPException(408, <<"CLI command timed out after ", TimeoutText, " seconds">>)
      [] proc.kind = "oserror" ->
            HTTPException(500, <<"Internal server error: ">> \o proc.stderr)
      [] proc.kind = "exit" /\ proc.code # 0 ->
            \* the HTTPException(400) is raised inside the try block and
            \* caught by `except Exception`
            HTTPException(500, <<"Internal server error: ", "400: ", "CLI command failed: ">>
                               \o (IF proc.stderr # <<>> THEN proc.stderr ELSE <<"Unknown error">>))
      [] OTHER ->
            IF auto_parse /\ fmt = "json" /\ JsonLoads(proc.stdout).ok
            THEN Parsed(JsonLoads(proc.stdout).value)
            ELSE HttpCLIResult(proc)

\* the entry points of each class and the formats they take
EntriesOf(m) ==
    IF m = "http_cli_mixin" THEN {"execute_cli_command"}
    ELSE {"execute_cli", "execute_cli_command"}
FormatsOf(m) == IF m = "cli" THEN {"json"} ELSE {"json", "table"}

MapOutput(m, entry, auto_parse, fmt, proc) ==
    IF entry = "execute_cli" THEN ExecuteCliOutput(m, fmt, proc)
    ELSE IF m = "cli_mixin" THEN MixinCommandOutput(auto_parse, fmt, proc)
    ELSE IF m = "cli" THEN CliCommandOutput(auto_parse, proc)
    ELSE HttpCommandOutput(auto_parse, fmt, proc)

OutProcOutcomes ==
    ProcOutcomes \cup {[kind |-> "exit", code |-> 0, stdout |-> o, stderr |-> <<>>] : o \in Stdouts}

NoOutCall == [mixin |-> "none", entry |-> "none", auto_parse |-> FALSE, fmt |-> "none",
              proc |-> NoProc]

OutIdle ==
    /\ outCall = NoOutCall
    /\ outRes = NoResult

\* one call of an entry point, with credentials at hand
RunAndMap(m, entry, auto_parse, fmt, proc) ==
    /\ outCall = NoOutCall
    /\ m \in MixinsOf(variant)
    /\ entry \in EntriesOf(m)
    /\ fmt \in FormatsOf(m)
    /\ entry = "execute_cli" => ~auto_parse
    /\ outCall' = [mixin |-> m, entry |-> entry, auto_parse |-> auto_parse, fmt |-> fmt,
                   proc |-> proc]
    /\ outRes' = MapOutput(m, entry, auto_parse, fmt, proc)
    /\ UNCHANGED exceptOut

OutNext ==
    \E m \in Mixins, entry \in {"execute_cli", "execute_cli_command"}, auto_parse \in BOOLEAN,
       fmt \in {"json", "table"}, proc \in OutProcOutcomes :
        RunAndMap(m, entry, auto_parse, fmt, proc)

(***************************************************************************)
(* The command builder                                                     *)
(***************************************************************************)
\* most flags in one flags map
MaxFlags == 2

\* self.config.cli_path
CliPath == <<"cy">>

\* Every element of an argv is a text; f"--{flag_name}" is <<"--", flag_name>>.
Switch(name) == <<"--", name>>

\* flag values: booleans, strings and integers
BoolValue(b) == [t |-> "bool", b |-> b, s |-> <<>>, n |-> 0]
StrValue(text) == [t |-> "str", b |-> FALSE, s |-> text, n |-> 0]
IntValue(n) == [t |-> "int", b |-> FALSE, s |-> <<>>, n |-> n]

FlagValues == {BoolValue(TRUE), BoolValue(FALSE), StrValue(<<"v">>), StrValue(<<>>), IntValue(5)}
FlagNames == {"verbose", "output", "org"}

\* a flags map in iteration order: no name twice
FlagMaps ==
    {f \in SeqsUpTo([name : FlagNames, value : FlagValues], MaxFlags) :
        \A i, j \in 1..Len(f) : f[i].name = f[j].name => i = j}

\* str(flag_value)
Str(value) ==
    CASE value.t = "str" -> value.s
      [] value.t = "int" -> <<ToString(value.n)>>
      [] OTHER -> IF value.b THEN <<"True">> ELSE <<"False">>

\* mutant: a boolean is rendered like any other value
RenderFlagStringly(flag) == <<Switch(flag.name), Str(flag.value)>>

\* the body of the loop over flags.items()
RenderFlag(flag) ==
    IF flag.value.t = "bool" /\ flag.value.b THEN <<Switch(flag.name)>>
    ELSE IF flag.value.t # "bool" THEN <<Switch(flag.name), Str(flag.value)>>
    ELSE <<>>

RECURSIVE RenderFlags(_)
RenderFlags(flags) ==
    IF flags = <<>> THEN <<>> ELSE RenderFlag(Head(flags)) \o RenderFlags(Tail(flags))

\* mutant: the output format is put in front of the flags
OutputPartFirst(m, sub, args, flags, fmt) ==
    <<CliPath, <<sub>>, Switch("output"), <<fmt>> >> \o args \o RenderFlags(flags)

\* _build_command; cli.py has no output_format parameter and always
\* appends "json"
BuildCommand(m, sub, args, flags, fmt) ==
    <<CliPath, <<sub>> >> \o args \o RenderFlags(flags)
        \o <<Switch("output"), <<IF m = "cli" THEN "json" ELSE fmt>> >>

ArgLists == {<<>>, << <<"list">> >>, << <<"create">>, <<"--blueprint-ref">> >>}

NoBuildCall == [mixin |-> "none", sub |-> "none", args |-> <<>>, flags |-> <<>>, fmt |-> "none"]

BuildIdle ==
    /\ buildCall = NoBuildCall
    /\ cmdParts = <<>>

\* cmd_parts = self._build_command(subcommand, args, flags, output_format)
Build(m, sub, args, flags, fmt) ==
    /\ buildCall = NoBuildCall
    /\ m \in MixinsOf(variant)
    /\ fmt \in FormatsOf(m)
    /\ buildCall' = [mixin |-> m, sub |-> sub, args |-> args, flags |-> flags, fmt |-> fmt]
    /\ cmdParts' = BuildCommand(m, sub, args, flags, fmt)
    /\ UNCHANGED exceptBuild

BuildNext ==
    \E m \in Mixins, sub \in {"stack", "catalog-repository"}, args \in ArgLists,
       flags \in FlagMaps, fmt \in {"json", "table"} :
        Build(m, sub, args, flags, fmt)

(***************************************************************************)
(* The handle_errors decorator and its retry loop                          *)
(***************************************************************************)
\* largest max_retries a decorator is given
MaxRetries == 3

\* Optional[str]: None, or a text
None == [some |-> FALSE, text |-> <<>>]
Some(text) == [some |-> TRUE, text |-> text]

\* the action= argument of the decorator
Action == <<"fetch organization events">>

\* the exceptions the decorated function raises, str(error) given word by word
CycloidAPIError(message, status_code) ==
    [type |-> "CycloidAPIError", msg |-> message, status_code |-> status_code,
     command |-> "", exit_code |-> 0, stderr |-> <<>>]
CycloidCLIErrorRaised(message, command, exit_code, stderr) ==
    [type |-> "CycloidCLIError", msg |-> message, status_code |-> 0,
     command |-> command, exit_code |-> exit_code, stderr |-> stderr]
Exception(type, message) ==
    [type |-> type, msg |-> message, status_code |-> 0,
     command |-> "", exit_code |-> 0, stderr |-> <<>>]

Errors ==
    { CycloidAPIError(<<"retry", "error">>, 500),
      CycloidAPIError(<<"unauthorized">>, 401),
      CycloidCLIErrorRaised(<<"Connection", "refused">>, "cy event list", 2,
                      <<"dial tcp: connect failed">>),
      CycloidCLIErrorRaised(<<"CLI", "command", "failed">>, "cy event list", 1,
                      <<"invalid credentials">>),
      Exception("ValueError", <<"test", "error">>) }

\* the values the decorated function returns
FuncValues == {<<"success after retry">>, <<>>}

\* str.lower() on the words the error texts are made of
StrLower(word) ==
    CASE word = "Connection" -> "connection"
      [] word = "Timeout" -> "timeout"
      [] word = "CLI" -> "cli"
      [] OTHER -> word

\* "timeout" in str(error).lower() or "connection" in str(error).lower()
MentionsNetwork(error) ==
    \E i \in 1..Len(error.msg) :
        StrLower(error.msg[i]) \in {"timeout", "connection"}

\* mutant: the last permitted attempt is given up
ShouldRetryOneLess(error, att, max_attempts) ==
    IF att + 1 >= max_attempts THEN FALSE
    ELSE IF error.type = "CycloidAPIError"
         THEN error.status_code \in {429, 500, 502, 503, 504}
    ELSE IF error.type = "CycloidCLIError" THEN MentionsNetwork(error)
    ELSE FALSE

\* RetryMechanism.should_retry
ShouldRetry(error, att, max_attempts) ==
    IF att >= max_attempts THEN FALSE
    ELSE IF error.type = "CycloidAPIError"
         THEN error.status_code \in {429, 500, 502, 503, 504}
    ELSE IF error.type = "CycloidCLIError" THEN MentionsNetwork(error)
    ELSE FALSE

\* ErrorFormatter.format_error, the suggestion lines left out
FormatError(action, error_text) ==
    <<"**Failed to ">> \o action \o <<"**", "**Error:** ">> \o error_text

\* ErrorFormatter.format_cli_error
FormatCliError(cli_error) ==
    FormatError(<<"execute CLI command: ", cli_error.command>>,
                <<"Exit code ", ToString(cli_error.exit_code), ": ">> \o cli_error.stderr)

\* handle_errors._handle_error: what the wrapper gives its caller for an error
HandleError(error, return_on_error) ==
    LET error_msg == IF error.type = "CycloidCLIError"
                     THEN FormatCliError(error)
                     ELSE FormatError(Action, error.msg)
    IN  IF return_on_error # None
        THEN Returned("return_on_error", return_on_error.text)
        ELSE Returned("error_msg", error_msg)

\* the exception made up after the loop
MaxRetriesExceeded == Exception("Exception", <<"Max", "retries", "exceeded">>)

\* the loop variable moves on: for attempt in range(1, max_retries + 1)
NextAttemptSame(att) == att
NextAttempt(att) == att + 1

\* the decorator arguments tried
RetryCalls ==
    [return_on_error : {None, Some(<<>>), Some(<<"error occurred">>)},
     enable_retry : BOOLEAN,
     max_retries : 0..MaxRetries]

NoRetryCall == [return_on_error |-> None, enable_retry |-> FALSE, max_retries |-> 0]
NoRetryRes == [kind |-> "none", tag |-> "", msg |-> <<>>, cause |-> "none"]
\* the wrapper's result, with what the last invocation of the function did
Outcome(res, cause) ==
    [kind |-> res.kind, tag |-> res.tag, msg |-> res.msg, cause |-> cause]

RetryIdle ==
    /\ retryCall = NoRetryCall
    /\ retryPc = "idle"
    /\ attempt = 0
    /\ call_count = 0
    /\ funcLog = <<>>
    /\ retryRes = NoRetryRes

\* the wrapper is called: without retry the function is invoked once; with
\* retry the loop starts at attempt 1, or is skipped when the range is empty
CallDecorated(call) ==
    /\ retryPc = "idle"
    /\ retryCall' = call
    /\ IF call.enable_retry /\ call.max_retries < 1
       THEN /\ retryPc' = "done"
            /\ attempt' = 0
            /\ call_count' = 0
            /\ retryRes' = Outcome(HandleError(MaxRetriesExceeded, call.return_on_error),
                                   "none")
       ELSE /\ retryPc' = "calling"
            /\ attempt' = IF call.enable_retry THEN 1 ELSE 0
            /\ call_count' = 1
            /\ retryRes' = retryRes
    /\ UNCHANGED <<funcLog, exceptRetry>>

\* return func(*args, **kwargs)
FuncReturns(value) ==
    /\ retryPc = "calling"
    /\ retryPc' = "done"
    /\ retryRes' = Outcome(Returned("value", value), "value")
    /\ funcLog' = Append(funcLog, [did |-> "returned", value |-> value])
    /\ UNCHANGED <<retryCall, attempt, call_count, exceptRetry>>

\* except Exception as e
FuncRaises(error) ==
    /\ retryPc = "calling"
    /\ IF retryCall.enable_retry /\ ShouldRetry(error, attempt, retryCall.max_retries)
       THEN /\ retryPc' = "sleeping"
            /\ retryRes' = retryRes
       ELSE /\ retryPc' = "done"
            /\ retryRes' = Outcome(HandleError(error, retryCall.return_on_error), "error")
    /\ funcLog' = Append(funcLog, [did |-> "raised", error |-> error])
    /\ UNCHANGED <<retryCall, attempt, call_count, exceptRetry>>

\* the backoff sleep is over and `continue` takes the next value of the range
SleepEnds ==
    /\ retryPc = "sleeping"
    /\ attempt' = NextAttempt(attempt)
    /\ IF attempt' <= retryCall.max_retries
       THEN /\ call_count <= MaxRetries
            /\ retryPc' = "calling"
            /\ call_count' = call_count + 1
            /\ retryRes' = retryRes
       ELSE /\ retryPc' = "done"
            /\ call_count' = call_count
            /\ retryRes' = Outcome(HandleError(MaxRetriesExceeded,
                                               retryCall.return_on_error), "error")
    /\ UNCHANGED <<retryCall, funcLog, exceptRetry>>

\* the decorated function comes to an end, one way or the other
FuncEnds ==
    \/ \E value \in FuncValues : FuncReturns(value)
    \/ \E error \in Errors : FuncRaises(error)

RetryNext ==
    \/ \E call \in RetryCalls : CallDecorated(call)
    \/ \E value \in FuncValues : FuncReturns(value)
    \/ \E error \in Errors : FuncRaises(error)
    \/ SleepEnds


(***************************************************************************)
(* Correlation contexts                                                    *)
(***************************************************************************)
\* tasks of the event loop that hold `with` blocks across an await
NumTasks == 2
\* deepest nesting of `with CorrelationContext` inside one task
MaxNesting == 2
\* identifiers uuid4 is asked for
MaxUuids == 1

Tasks == 1..NumTasks

\* the correlation_id argument of CorrelationContext / error_context
CorrelationArgs == {None, Some(<<"outer-id">>), Some(<<"inner-id">>)}

\* str(uuid.uuid4()): a new identifier each time
Uuid4(n) == Some(<<"uuid", ToString(n)>>)

\* get_correlation_id
GetCorrelationId == correlation_ids

CorrIdle ==
    /\ correlation_ids = None
    /\ ctxStacks = [t \in Tasks |-> <<>>]
    /\ activeOrder = <<>>
    /\ uuids = 0

\* CorrelationContext(arg).__enter__ in task t
Enter(t, arg) ==
    /\ Len(ctxStacks[t]) < MaxNesting
    /\ arg = None => uuids < MaxUuids
    /\ LET correlation_id == IF arg # None /\ arg.text # <<>> THEN arg
                             ELSE Uuid4(uuids + 1)
           previous_id == correlation_ids
       IN  /\ ctxStacks' = [ctxStacks EXCEPT ![t] =
                   Append(@, [correlation_id |-> correlation_id,
                              previous_id |-> previous_id])]
           /\ correlation_ids' = correlation_id
           /\ activeOrder' = Append(activeOrder, [task |-> t, id |-> correlation_id])
    /\ uuids' = IF arg = None THEN uuids + 1 ELSE uuids
    /\ UNCHANGED exceptCorr

\* error_context in execute_cli_command: the current identifier is handed on
EnterErrorContext(t) == Enter(t, GetCorrelationId)

\* position in activeOrder of the context task t entered last
LastOf(t) ==
    CHOOSE i \in 1..Len(activeOrder) :
        /\ activeOrder[i].task = t
        /\ \A j \in (i + 1)..Len(activeOrder) : activeOrder[j].task # t

Without(seq, i) == SubSeq(seq, 1, i - 1) \o SubSeq(seq, i + 1, Len(seq))

\* __exit__ of the innermost context of task t
Exit(t) ==
    /\ ctxStacks[t] # <<>>
    /\ LET self == ctxStacks[t][Len(ctxStacks[t])]
       IN  correlation_ids' = IF self.previous_id # None /\ self.previous_id.text # <<>>
                              THEN self.previous_id
                              ELSE None
    /\ ctxStacks' = [ctxStacks EXCEPT ![t] = SubSeq(@, 1, Len(@) - 1)]
    /\ activeOrder' = Without(activeOrder, LastOf(t))
    /\ UNCHANGED <<uuids, exceptCorr>>

CorrNext ==
    \/ \E t \in Tasks, arg \in CorrelationArgs : Enter(t, arg)
    \/ \E t \in Tasks : EnterErrorContext(t)
    \/ \E t \in Tasks : Exit(t)


(***************************************************************************)
(* The error monitor                                                       *)
(***************************************************************************)
\* largest window_size an ErrorMonitor is built with
MaxWindow == 3
\* record_error calls made on one monitor
MaxRecorded == 5

ErrorTypes == {e.type : e \in Errors}
Severities == {"error", "critical"}

\* mutant: a deque without maxlen
DequeAppendUnbounded(dq, maxlen, x) == Append(dq, x)

\* deque(maxlen=maxlen).append(x): the oldest entry falls out of a full deque
DequeAppend(dq, maxlen, x) ==
    IF maxlen = 0 THEN <<>>
    ELSE IF Len(dq) < maxlen THEN Append(dq, x)
    ELSE Append(Tail(dq), x)

\* ErrorMonitor.__init__
ErrorMonitor(window_size) ==
    [window_size |-> window_size,
     error_events |-> <<>>,
     error_counts |-> [t \in ErrorTypes |-> 0]]

NoMonitor == [window_size |-> 0, error_events |-> <<>>, error_counts |-> <<>>]
NoStats == [total_errors |-> 0, error_types |-> <<>>, window_size |-> 0]

\* ErrorMonitor.get_error_stats, the time-window count left out
ErrorStats(self) ==
    [total_errors |-> Len(self.error_events),
     error_types |-> self.error_counts,
     window_size |-> self.window_size]

MonIdle ==
    /\ monitor = NoMonitor
    /\ recorded = 0
    /\ stats = NoStats
    /\ statsAt = 0

\* monitor = ErrorMonitor(window_size)
NewMonitor(window_size) ==
    /\ monitor = NoMonitor
    /\ monitor' = ErrorMonitor(window_size)
    /\ UNCHANGED <<recorded, stats, statsAt, exceptMon>>

\* monitor.record_error(error, action, severity); _check_alerts only logs
\* and calls the alert callbacks
RecordError(error, severity) ==
    /\ monitor # NoMonitor
    /\ recorded < MaxRecorded
    /\ LET event == [error_type |-> error.type, severity |-> severity]
       IN  monitor' = [monitor EXCEPT
               !.error_events = DequeAppend(@, monitor.window_size, event),
               !.error_counts[event.error_type] = @ + 1]
    /\ recorded' = recorded + 1
    /\ UNCHANGED <<stats, statsAt, exceptMon>>

\* stats = monitor.get_error_stats()
GetErrorStats ==
    /\ monitor # NoMonitor
    /\ stats' = ErrorStats(monitor)
    /\ statsAt' = recorded
    /\ UNCHANGED <<monitor, recorded, exceptMon>>

MonNext ==
    \/ \E window_size \in 0..MaxWindow : NewMonitor(window_size)
    \/ \E error \in Errors, severity \in Severities : RecordError(error, severity)
    \/ GetErrorStats


(***************************************************************************)
(* The pipeline list tool                                                  *)
(***************************************************************************)
\* most entries in the list the CLI prints
MaxPipelines == 3

\* an entry of the parsed output: a dict, or something that is not one
PipelineItems ==
    {[dict |-> TRUE, name |-> "build"], [dict |-> TRUE, name |-> "deploy"],
     [dict |-> FALSE, name |-> "stray text"]}

\* placeholder where no exception was raised
NoError == Exception("", <<>>)

\* what execute_cli gives: parsed data (a list, a dict, a string), or an
\* exception
PipelineCliOutcomes ==
    {[kind |-> "returned", data |-> [t |-> "list", items |-> items], error |-> NoError] :
        items \in SeqsUpTo(PipelineItems, MaxPipelines)}
    \cup {[kind |-> "returned", data |-> [t |-> t, items |-> <<>>], error |-> NoError] :
        t \in {"dict", "str"}}
    \cup {[kind |-> "raised", data |-> [t |-> "none", items |-> <<>>], error |-> e] :
        e \in Errors}

\* CLIMixin.process_cli_response(data) with list_key=None
ProcessCliResponse(data) ==
    IF data.t = "list" THEN SelectSeq(data.items, LAMBDA item : item.dict)
    ELSE <<>>

\* mutant: the exception of the CLI call is let through
GetPipelinesLetsThrough(cli) ==
    IF cli.kind = "raised" THEN Raised(cli.error.type, cli.error.msg)
    ELSE [kind |-> "returned", tag |-> "list", msg |-> ProcessCliResponse(cli.data)]

\* PipelineHandler.get_pipelines / _get_pipelines: `except Exception` gives []
GetPipelines(cli) ==
    IF cli.kind = "raised" THEN [kind |-> "returned", tag |-> "list", msg |-> <<>>]
    ELSE [kind |-> "returned", tag |-> "list", msg |-> ProcessCliResponse(cli.data)]

\* the tool around it:
\*  tools : PipelineTools.list_pipelines, a text for format "summary" and a
\*          dict for "json"; an exception becomes an error text
\*  module: list_pipelines (pipelines.py), always the dict; an exception
\*          becomes a ToolError
ListPipelines(v, format, got) ==
    IF got.kind = "raised"
    THEN IF v = "tools"
         THEN [kind |-> "returned", shape |-> "text", pipelines |-> <<>>, count |-> 0,
               text |-> <<"X Error listing pipelines: ">> \o got.msg]
         ELSE [kind |-> "raised", shape |-> "ToolError", pipelines |-> <<>>, count |-> 0,
               text |-> <<"Error listing pipelines: ">> \o got.msg]
    ELSE IF v = "tools" /\ format # "json"
    THEN [kind |-> "returned", shape |-> "text", pipelines |-> <<>>, count |-> Len(got.msg),
          text |-> <<"Pipelines\n\nFound ", ToString(Len(got.msg)), " pipelines.">>]
    ELSE [kind |-> "returned", shape |-> "dict", pipelines |-> got.msg,
          count |-> Len(got.msg), text |-> <<>>]

NoPipeCli == [kind |-> "none", data |-> [t |-> "none", items |-> <<>>], error |-> NoError]
NoPipeRes == [kind |-> "none", shape |-> "none", pipelines |-> <<>>, count |-> 0, text |-> <<>>]

PipeIdle ==
    /\ pipePc = "idle"
    /\ pipeFormat = ""
    /\ pipeCli = NoPipeCli
    /\ pipelines = <<>>
    /\ pipeRes = NoPipeRes

\* the tool is called and awaits execute_cli
PipeCall(format) ==
    /\ pipePc = "idle"
    /\ variant = "module" => format = "summary"
    /\ pipePc' = "fetching"
    /\ pipeFormat' = format
    /\ UNCHANGED <<pipeCli, pipelines, pipeRes, exceptPipe>>

\* execute_cli ends; get_pipelines and the tool return
PipeFetch(cli) ==
    /\ pipePc = "fetching"
    /\ pipePc' = "done"
    /\ pipeCli' = cli
    /\ pipelines' = IF GetPipelines(cli).kind = "returned" THEN GetPipelines(cli).msg ELSE <<>>
    /\ pipeRes' = ListPipelines(variant, pipeFormat, GetPipelines(cli))
    /\ UNCHANGED <<pipeFormat, exceptPipe>>

PipeNext ==
    \/ \E format \in {"summary", "json"} : PipeCall(format)
    \/ \E cli \in PipelineCliOutcomes : PipeFetch(cli)


(***************************************************************************)
(* The event list tool                                                     *)
(***************************************************************************)
\* a Python value that is a list, or a str
ListValue(items) == [t |-> "list", v |-> items]
StrValueOf(text) == [t |-> "str", v |-> text]

\* len() of either (for a str: counted in the tokens of the text)
PyLen(value) == Len(value.v)

\* EventHandler.list_events under @handle_errors(action=...), where
\* return_on_error is left as None: the list, or what _handle_error returns
HandlerListEvents(cli) ==
    IF cli.kind = "raised"
    THEN StrValueOf(HandleError(cli.error, None).msg)
    ELSE ListValue(ProcessCliResponse(cli.data))

\* The tool.
\*  tools : EventTools.list_events calls the decorated handler, and for
\*          format "json" dumps {"events": events, "count": len(events)};
\*          the table of a str fails on ev.get and gives the error text.
\*  module: list_events (events.py) calls _list_events, which is not
\*          decorated; an exception becomes a ToolError.
ListEvents(v, format, cli) ==
    IF v = "module"
    THEN IF cli.kind = "raised"
         THEN [kind |-> "raised", shape |-> "ToolError", events |-> ListValue(<<>>), count |-> 0]
         ELSE [kind |-> "returned", shape |-> "dict",
               events |-> ListValue(ProcessCliResponse(cli.data)),
               count |-> Len(ProcessCliResponse(cli.data))]
    ELSE LET events == HandlerListEvents(cli)
         IN  IF format = "json"
             THEN [kind |-> "returned", shape |-> "dict", events |-> events,
                   count |-> PyLen(events)]
             ELSE [kind |-> "returned", shape |-> "text", events |-> events,
                   count |-> PyLen(events)]

NoEvRes == [kind |-> "none", shape |-> "none", events |-> ListValue(<<>>), count |-> 0]

EvIdle ==
    /\ evPc = "idle"
    /\ evFormat = ""
    /\ evCli = NoPipeCli
    /\ evRes = NoEvRes

\* the tool is called and awaits execute_cli
EvCall(format) ==
    /\ evPc = "idle"
    /\ variant = "module" => format = "json"
    /\ evPc' = "fetching"
    /\ evFormat' = format
    /\ UNCHANGED <<evCli, evRes, exceptEv>>

\* execute_cli ends; the handler and the tool return
EvFetch(cli) ==
    /\ evPc = "fetching"
    /\ evPc' = "done"
    /\ evCli' = cli
    /\ evRes' = ListEvents(variant, evFormat, cli)
    /\ UNCHANGED <<evFormat, exceptEv>>

EvNext ==
    \/ \E format \in {"json", "table"} : EvCall(format)
    \/ \E cli \in PipelineCliOutcomes : EvFetch(cli)

(***************************************************************************)
(* Specifications                                                          *)
(***************************************************************************)
Init ==
    /\ variant \in {"tools", "module"}
    /\ FlowIdle
    /\ CliIdle
    /\ HttpIdle
    /\ FormsIdle
    /\ EnvIdle
    /\ ExtractIdle
    /\ OutIdle
    /\ BuildIdle
    /\ RetryIdle
    /\ CorrIdle
    /\ MonIdle
    /\ PipeIdle
    /\ EvIdle

\* one call of the stack-creation tool
Next == FlowNext

Spec == Init /\ [][Next]_vars

\* one invocation of execute_cli_command
CliSpec == Init /\ [][CliNext]_vars

\* the event loop runs the timer of asyncio.wait_for: a timeout that stays
\* due does elapse
FairCliSpec == CliSpec /\ WF_vars(TimeoutElapses)

\* concurrent requests on the HTTP transport
HttpSpec == Init /\ [][HttpNext]_vars

\* one call of the form-validation tool
FormsSpec == Init /\ [][FormsNext]_vars

\* one environment built for a child process
EnvSpec == Init /\ [][EnvNext]_vars

\* one credential extraction applied to two spellings of a header map
ExtractSpec == Init /\ [][ExtractNext]_vars

\* one command run through the result mapper
OutSpec == Init /\ [][OutNext]_vars

\* one command line built
BuildSpec == Init /\ [][BuildNext]_vars

\* one call of a function decorated with handle_errors
RetrySpec == Init /\ [][RetryNext]_vars

\* the decorated function is awaited to its end, and asyncio.sleep(delay)
\* with a finite delay is woken by the event loop
FairRetrySpec == RetrySpec /\ WF_vars(FuncEnds) /\ WF_vars(SleepEnds)

\* tasks entering and leaving correlation contexts
CorrSpec == Init /\ [][CorrNext]_vars

\* calls on one ErrorMonitor
MonSpec == Init /\ [][MonNext]_vars

\* one call of the pipeline list tool
PipeSpec == Init /\ [][PipeNext]_vars

\* one call of the event list tool
EvSpec == Init /\ [][EvNext]_vars

(***************************************************************************)
(* Claims about the stack-creation flow                                    *)
(***************************************************************************)
AllFourAccepted ==
    /\ Len(answers) = 4
    /\ answers[1].step = "name" /\ answers[2].step = "use_case"
    /\ answers[3].step = "catalog" /\ answers[4].step = "confirm"
    /\ \A i \in 1..4 : answers[i].status = "ok"

\* C1: the creation subcommand is spawned only after the name, use-case,
\* catalog-source and confirmation elicitations were each accepted with a
\* valid value, in that order; if any of them did not succeed, nothing is
\* spawned.
C1_SpawnOnlyAfterFourAccepted == (ctxGiven /\ spawns # <<>>) => AllFourAccepted

Refused(i) == answers[i].status \in {"rejected", "empty", "invalid"}

\* C6: after a step answered with an action other than accept, an empty
\* value or a value outside the offered set, the call is at once in the
\* terminal cancelled outcome with a reason, and that step was the last one.
C6_RefusedStepCancels ==
    \A i \in 1..Len(answers) :
        Refused(i) =>
            /\ i = Len(answers)
            /\ pc = "done"
            /\ outcome.kind = "returned" /\ outcome.tag = "cancelled"
            /\ outcome.msg # <<>>

\* C7: a use-case answer that is not in the offered list cancels the call
\* immediately with a message naming the value and listing the valid
\* options, and no creation subcommand is run.
C7_InvalidUseCaseCancels ==
    \A i \in 1..Len(answers) :
        (answers[i].step = "use_case" /\ answers[i].status \in {"invalid", "empty"}) =>
            /\ i = Len(answers)
            /\ pc = "done"
            /\ outcome.kind = "returned" /\ outcome.tag = "cancelled"
            /\ Contains(outcome.msg, answers[i].data)
            /\ \A k \in 1..Len(AvailableUseCases) : Contains(outcome.msg, AvailableUseCases[k])
            /\ spawns = <<>>

C7_Witness ==
    /\ Len(answers) = 2
    /\ answers[2].step = "use_case" /\ answers[2].status = "invalid"
    /\ answers[2].data = "bogus"
    /\ pc = "done"

\* C8: within one call each of the four prompts is sent at most once.
C8_EachPromptAtMostOnce ==
    \A i, j \in 1..Len(prompts) : prompts[i] = prompts[j] => i = j

C8_Witness ==
    /\ pc = "done"
    /\ Len(prompts) = 3
    /\ answers[3].status = "rejected"

\* C9: when a step was rejected or the elicit call raised, the call ends by
\* returning a message; no exception reaches the caller.
C9_RejectionReturnsMessage ==
    (pc = "done" /\ \E i \in 1..Len(answers) : answers[i].status \in {"rejected", "raised"})
        => (outcome.kind = "returned" /\ outcome.msg # <<>>)

C9_Witness ==
    /\ pc = "done"
    /\ \E i \in 1..Len(answers) : answers[i].status = "raised"
    /\ outcome.kind = "returned"

\* C10: within one call the creation subcommand is spawned at most once,
\* whether it succeeds or fails.
C10_CreateSpawnedAtMostOnce == Len(spawns) <= 1

\* C11: when the call came with an elicitation context, the name, use_case
\* and service_catalog_source_canonical passed in the call are ignored: every
\* creation subcommand run in the call is built from the elicited values only.
C11_ParamsIgnoredWithCtx ==
    ctxGiven =>
        \A i \in 1..Len(spawns) :
            /\ spawns[i].via = "elicited"
            /\ spawns[i].argv =
                  ElicitedCreateArgs(elicited.name, elicited.use_case, elicited.canonical)

(***************************************************************************)
(* Claims about credentials and the execution pipeline                     *)
(***************************************************************************)
\* C2: the CY_ORG and CY_API_KEY in the environment of a child process run
\* for a request are that request's own organization and API key.
C2_ChildGetsOwnCredentials ==
    \A s \in httpSpawns :
        /\ s.env.CY_ORG = OrgOf(s.req)
        /\ s.env.CY_API_KEY = KeyOf(s.req)

LacksCredentials(h) ==
    \/ h.orgName = "absent" \/ h.org = <<>>
    \/ h.keyName = "absent" \/ h.key = <<>>

MissingField(h) ==
    IF h.orgName = "absent" \/ h.org = <<>> THEN "X-CY-ORG" ELSE "X-CY-API-KEY"

\* C3: a request whose organization or API key is absent or empty ends in an
\* error naming the missing field, and no child process is run for it.
C3_MissingCredentialsFailFast ==
    \A r \in Requests :
        (reqs[r].pc = "done" /\ LacksCredentials(reqs[r].headers)) =>
            /\ reqs[r].result.st = "error"
            /\ Contains(reqs[r].result.err, MissingField(reqs[r].headers))
            /\ \A s \in httpSpawns : s.req # r

\* C4: when the child process exits with a non-zero code, the invocation
\* raises an error whose stderr is the child's stderr text and whose exit
\* code is the child's exit code.
C4_NonZeroExitRaisesVerbatim ==
    (cliPc = "done" /\ cliProc.kind = "exit" /\ cliProc.code # 0) =>
        /\ cliResult.kind = "error"
        /\ cliResult.stderr = cliProc.stderr
        /\ cliResult.exit_code = cliProc.code

\* C5: an invocation that is waiting for its child process always ends, and
\* when the timeout elapsed first it ends with the timeout error.
C5_TimeoutEndsInvocation ==
    /\ (cliPc = "waiting") ~> (cliPc = "done")
    /\ [](cliPc = "done" /\ cliProc.kind = "timeout" =>
            /\ cliResult.kind = "error"
            /\ Contains(cliResult.msg, "CLI command timed out after ")
            /\ cliResult.stderr = <<"Command timed out">>)

C5_Witness ==
    /\ cliPc = "done"
    /\ cliProc.kind = "timeout"
    /\ cliResult.kind = "error"

(***************************************************************************)
(* Claims about the tools built on the pipeline                            *)
(***************************************************************************)
\* every token of text s occurs in msg
ContainsAll(msg, s) == \A i \in 1..Len(s) : Contains(msg, s[i])

\* C12: when the validation subprocess exits with a non-zero code and stderr
\* S, the form-validation tool returns a message containing S as its normal
\* result; no exception leaves the tool.
C12_ValidationFailureReturnsStderr ==
    (formsPc = "done" /\ formsProc.kind = "exit" /\ formsProc.code # 0) =>
        /\ formsOutcome.kind = "returned"
        /\ ContainsAll(formsOutcome.msg, formsProc.stderr)

(***************************************************************************)
(* Claims about the command builder, the runner and the result mapper      *)
(***************************************************************************)
EnvBuilt == envCall # NoEnvCall

\* the inherited environment with the three keys overridden or added
InheritedWithInjected ==
    /\ DOMAIN childEnv = DOMAIN envCall.environ \cup InjectedKeys
    /\ childEnv["CY_ORG"] = envCall.org
    /\ childEnv["CY_API_KEY"] = envCall.key
    /\ childEnv["CY_API_URL"] = ApiUrl
    /\ \A k \in DOMAIN envCall.environ \ InjectedKeys : childEnv[k] = envCall.environ[k]

Extraction == extractCall # NoExtractCall

JsonRequested ==
    /\ outCall # NoOutCall
    /\ outCall.fmt = "json"
    /\ outCall.entry = "execute_cli" \/ outCall.auto_parse
    /\ outCall.proc.kind = "exit" /\ outCall.proc.code = 0

\* the message holds the first PreviewLen characters of the output and
\* nothing of what follows them
CarriesPreviewOnly(msg, out) ==
    /\ \E i \in 1..Len(msg) :
          /\ i + Len(Preview(out)) - 1 <= Len(msg)
          /\ SubSeq(msg, i, i + Len(Preview(out)) - 1) = Preview(out)
    /\ \A j \in (PreviewLen + 1)..Len(out) : ~Contains(msg, out[j])
    /\ Len(msg) <= PreviewLen + 3

\* output that is no JSON is parsed as a literal; if that fails too, a parse
\* error with a preview of the output is raised
LiteralThenPreview ==
    LET out == outCall.proc.stdout
    IN  IF LiteralEval(out).ok
        THEN outRes.kind = "parsed" /\ outRes.value = LiteralEval(out).value
        ELSE /\ outRes.kind = "error"
             /\ Contains(outRes.msg, "Failed to parse CLI JSON output: ")
             /\ CarriesPreviewOnly(outRes.msg, out)

TextRequested ==
    /\ outCall # NoOutCall
    /\ outCall.mixin = "cli_mixin"
    /\ outCall.fmt # "json"
    /\ outCall.entry = "execute_cli" \/ outCall.auto_parse
    /\ outCall.proc.kind = "exit" /\ outCall.proc.code = 0

\* C18 as stated: with exit code 0 and a non-JSON format requested, the
\* pipeline returns stdout as a string with its surrounding whitespace
\* trimmed and otherwise unchanged.
C18_TextReturnedTrimmed ==
    TextRequested => (outRes.kind = "text" /\ outRes.stdout = SkipWs(outCall.proc.stdout))

\* C18 amended: the pipeline returns stdout as a string exactly as the
\* process wrote it, surrounding whitespace included.
C18_TextReturnedUnchanged ==
    TextRequested => (outRes.kind = "text" /\ outRes.stdout = outCall.proc.stdout)

C18_Witness ==
    /\ TextRequested
    /\ outCall.proc.stdout = <<" ", "t", "b", "l", " ", "\n">>
    /\ outRes.kind = "text"
    /\ outRes.stdout # SkipWs(outCall.proc.stdout)

Built == buildCall # NoBuildCall

\* the part of cmdParts between the positional arguments and the output format
FlagPart == SubSeq(cmdParts, 3 + Len(buildCall.args), Len(cmdParts) - 2)

\* how the claim renders one flag
ExpectedFlag(flag) ==
    IF flag.value = BoolValue(TRUE) THEN <<Switch(flag.name)>>
    ELSE IF flag.value = BoolValue(FALSE) THEN <<>>
    ELSE <<Switch(flag.name), Str(flag.value)>>

RECURSIVE ExpectedFlags(_)
ExpectedFlags(flags) ==
    IF flags = <<>> THEN <<>> ELSE ExpectedFlag(Head(flags)) \o ExpectedFlags(Tail(flags))

Occurrences(seq, x) == Cardinality({i \in 1..Len(seq) : seq[i] = x})

\* C16: each flag is rendered according to its value: true yields the bare
\* switch --name exactly once, false yields nothing in cmdParts, and a
\* non-boolean value yields --name immediately followed by str(value).
C16_FlagsRenderedByValue ==
    Built =>
        /\ FlagPart = ExpectedFlags(buildCall.flags)
        /\ \A i \in 1..Len(buildCall.flags) :
              LET flag == buildCall.flags[i]
                  count == Occurrences(FlagPart, Switch(flag.name))
              IN  /\ flag.value = BoolValue(FALSE) => count = 0
                  /\ flag.value # BoolValue(FALSE) => count = 1
                  /\ flag.value.t # "bool" =>
                        \E k \in 1..(Len(FlagPart) - 1) :
                            FlagPart[k] = Switch(flag.name) /\ FlagPart[k + 1] = Str(flag.value)

C16_Witness ==
    /\ Built
    /\ \E i, j \in 1..Len(buildCall.flags) :
          /\ buildCall.flags[i].value = BoolValue(FALSE)
          /\ buildCall.flags[j].value = IntValue(5)
    /\ Len(FlagPart) = 2

\* the output format the caller asked for (cli.py offers JSON only)
RequestedFormat == IF buildCall.mixin = "cli" THEN "json" ELSE buildCall.fmt

\* C17: the last two elements of the built argv are --output and the
\* requested output format.
C17_ArgvEndsWithOutput ==
    Built =>
        /\ Len(cmdParts) >= 4
        /\ cmdParts[Len(cmdParts) - 1] = Switch("output")
        /\ cmdParts[Len(cmdParts)] = <<RequestedFormat>>

C17_Witness ==
    /\ Built
    /\ buildCall.fmt = "table" /\ buildCall.mixin = "cli_mixin"
    /\ \E i \in 1..Len(buildCall.flags) :
          buildCall.flags[i].name = "output" /\ buildCall.flags[i].value = StrValue(<<"v">>)
    /\ cmdParts[Len(cmdParts)] = <<"table">>

(***************************************************************************)
(* Claims about the handle_errors decorator                                *)
(***************************************************************************)
\* the wrapper is through and the last invocation of the function raised
RaisedInside == retryPc = "done" /\ retryRes.cause = "error"

\* C19: with return_on_error left as None an exception of the decorated
\* function is re-raised to the caller; a value takes the place of the
\* exception only when return_on_error is given
C19_NoneReraises ==
    RaisedInside =>
        IF retryCall.return_on_error = None
        THEN retryRes.kind = "raised"
        ELSE /\ retryRes.kind = "returned"
             /\ retryRes.msg = retryCall.return_on_error.text

\* the wrapper was called and has not given its result yet
WrapperRunning == retryPc \in {"calling", "sleeping"}

\* C20: with enable_retry the decorated function is invoked at most
\* max_retries times per call, and every call of the wrapper ends with a
\* result
C20_BoundedRetries ==
    /\ [](retryCall.enable_retry => call_count <= retryCall.max_retries)
    /\ [](retryPc = "done" => retryRes.kind = "returned")
    /\ (WrapperRunning ~> retryPc = "done")

\* every permitted invocation was used up and the wrapper gave its result
C20_Witness ==
    /\ retryPc = "done"
    /\ retryCall.enable_retry
    /\ retryCall.max_retries >= 2
    /\ call_count = retryCall.max_retries
    /\ retryRes.cause = "error"

\* a retryable error: a rate limit or server failure of the API, or a CLI
\* error whose text speaks of a timeout or a connection
Retryable(error) ==
    \/ error.type = "CycloidAPIError" /\ error.status_code \in {429, 500, 502, 503, 504}
    \/ error.type = "CycloidCLIError" /\ MentionsNetwork(error)

\* every invocation but the last raised a retryable error
RetryableBefore(k) ==
    \A i \in 1..(k - 1) :
        funcLog[i].did = "raised" /\ Retryable(funcLog[i].error)

\* C21: with enable_retry, when the function raises retryable errors on its
\* first k-1 invocations and returns a value on the k-th, k <= max_retries,
\* the wrapper returns exactly that value after exactly k invocations; it
\* does not give up on a retryable error while invocations are left
C21_ValueAfterRetries ==
    (retryPc = "done" /\ retryCall.enable_retry /\ Len(funcLog) >= 1
        /\ RetryableBefore(Len(funcLog))) =>
        LET k == Len(funcLog)
        IN  /\ call_count = k
            /\ funcLog[k].did = "returned" =>
                    /\ k <= retryCall.max_retries
                    /\ retryRes.kind = "returned"
                    /\ retryRes.tag = "value"
                    /\ retryRes.msg = funcLog[k].value
            /\ (funcLog[k].did = "raised" /\ Retryable(funcLog[k].error)) =>
                    k >= retryCall.max_retries

\* the function failed twice with retryable errors and then returned
C21_Witness ==
    /\ retryPc = "done"
    /\ retryCall.enable_retry
    /\ Len(funcLog) = 3
    /\ RetryableBefore(3)
    /\ funcLog[3].did = "returned"
    /\ retryRes.msg = <<"success after retry">>

(***************************************************************************)
(* Claims about correlation contexts and the error monitor                 *)
(***************************************************************************)
\* C22: get_correlation_id() gives the identifier of the context entered
\* last among those not yet left, and None when no context is active
C22_CurrentIsInnermostActive ==
    GetCorrelationId = IF activeOrder = <<>> THEN None
                       ELSE activeOrder[Len(activeOrder)].id

\* get_error_stats was called on a monitor
StatsTaken == monitor # NoMonitor /\ stats # NoStats

\* C23 as stated: total_errors is the number of errors recorded so far
C23_TotalIsRecorded == StatsTaken => stats.total_errors = statsAt

\* C23: total_errors is the number of errors recorded so far as long as that
\* is at most window_size, and window_size from then on
C23_TotalIsRecordedUpToWindow ==
    StatsTaken => stats.total_errors = Min(statsAt, monitor.window_size)

\* statistics taken after more errors than the window holds
C23_Witness ==
    /\ StatsTaken
    /\ statsAt > monitor.window_size
    /\ stats.total_errors = monitor.window_size

NoCtxParamMissing ==
    /\ pc = "done"
    /\ ~ctxGiven
    /\ (params.name = <<>> \/ params.use_case = "" \/ params.canonical = "")

FoundText(n) == <<"Pipelines\n\nFound ", ToString(n), " pipelines.">>

\* C26: when the CLI call made by the pipeline handler raises, get_pipelines
\* returns an empty list instead of raising and the tool reports zero
\* pipelines
C26_CliErrorGivesNoPipelines ==
    (pipePc = "done" /\ pipeCli.kind = "raised") =>
        /\ pipelines = <<>>
        /\ pipeRes.kind = "returned"
        /\ pipeRes.count = 0
        /\ pipeRes.pipelines = <<>>
        /\ pipeRes.shape = "text" => pipeRes.text = FoundText(0)

\* the CLI call raised a CLI error and the summary says zero pipelines
C26_Witness ==
    /\ pipePc = "done"
    /\ pipeCli.kind = "raised"
    /\ pipeCli.error.type = "CycloidCLIError"
    /\ pipeRes.text = FoundText(0)

\* the four steps succeeded and the creation subcommand built from them
\* exited with a code other than 0
ElicitedCreationExitedNonZero ==
    /\ pc = "done"
    /\ AllFourAccepted
    /\ spawns # <<>>
    /\ spawns[1].via = "elicited"
    /\ spawns[1].proc.kind = "exit" /\ spawns[1].proc.code # 0

\* C27: when the four elicitation steps succeed and the creation subcommand
\* exits non-zero, the result says that stack creation failed and carries
\* the stderr of the subprocess; it is neither the elicitation-unsupported
\* result nor a cancelled one
C27_NonZeroExitReportsFailure ==
    ElicitedCreationExitedNonZero =>
        /\ outcome.kind = "returned"
        /\ outcome.tag = "failed"
        /\ Contains(outcome.msg, "Failed to create stack: ")
        /\ ContainsAll(outcome.msg, spawns[1].proc.stderr)

\* C28: in every structured list response of a list tool, also after the
\* CLI call failed, the list field is a list and count is the number of its
\* elements
C28_ListFieldIsListOfCount ==
    (evPc = "done" /\ evRes.kind = "returned" /\ evRes.shape = "dict") =>
        /\ evRes.events.t = "list"
        /\ evRes.count = Len(evRes.events.v)

\* x is one of the elements of list
OneOf(x, list) == \E k \in 1..Len(list) : list[k] = x

\* a call that took the direct path with values that cannot be valid: the
\* use case is not one of the blueprint's, or no listing has the canonical
DirectWithInvalidValue ==
    /\ pc = "done"
    /\ ~ctxGiven
    /\ params.name # <<>> /\ params.use_case # "" /\ params.canonical # ""
    /\ \/ ~OneOf(params.use_case, AvailableUseCases)
       \/ \A listing \in CatalogListings : ~OneOf(params.canonical, listing.canonicals)

\* C29: direct creation spawns the creation subcommand only if the use case
\* is one of the blueprint's and the catalog canonical is one of those the
\* catalog-repository listing returned; otherwise a message is returned and
\* nothing is spawned
C29_DirectSpawnOnlyIfValid ==
    /\ \A i \in 1..Len(spawns) :
          spawns[i].via = "direct" =>
              /\ OneOf(params.use_case, AvailableUseCases)
              /\ OneOf(params.canonical, spawns[i].listed)
    /\ DirectWithInvalidValue =>
          /\ spawns = <<>>
          /\ \/ outcome.kind = "returned" /\ outcome.msg # <<>>
             \/ outcome.kind = "raised" /\ outcome.tag = "CycloidCLIError"

\* a direct creation was spawned for a listed canonical
C29_Witness ==
    /\ pc = "done"
    /\ ~ctxGiven
    /\ spawns # <<>>
    /\ spawns[1].via = "direct"
    /\ params.canonical = "repo-a"

\* argv holds the switch immediately followed by the value, which is not empty
SwitchThenValue(argv, switch, value) ==
    /\ value # <<>>
    /\ \E k \in 1..(Len(argv) - 1) : argv[k] = <<switch>> /\ argv[k + 1] = value

\* the values the i-th creation subcommand was built from
SpawnValues(i) == IF spawns[i].via = "elicited" THEN elicited ELSE params

\* C30: for every accepted stack name the argv of the creation subcommand
\* holds each of --blueprint-ref, --name, --stack, --use-case and
\* --catalog-repository immediately followed by its own non-empty value,
\* the value of --stack being the slug derived from the name
C30_EverySwitchHasItsValue ==
    \A i \in 1..Len(spawns) :
        LET argv == spawns[i].argv
            from == SpawnValues(i)
        IN  /\ SwitchThenValue(argv, "--blueprint-ref", <<Ref>>)
            /\ SwitchThenValue(argv, "--name", from.name)
            /\ SwitchThenValue(argv, "--stack", GenerateCanonicalFromName(from.name))
            /\ SwitchThenValue(argv, "--use-case", <<from.use_case>>)
            /\ SwitchThenValue(argv, "--catalog-repository", <<from.canonical>>)

====
